---- MODULE Spec2Model ----
(***************************************************************************)
(* Model of the Turtle CPU toolkit: the cycle-accurate simulator driver    *)
(* (turtle_toolkit/simulator.py), its modules (register file, memories,    *)
(* program counter, decoder, ALU) and the bus-value arithmetic they use.   *)
(***************************************************************************)
EXTENDS Integers, Sequences, FiniteSets, TLC

\* ------------------------------------------------------------------------
\* Configured widths and latencies
\* ------------------------------------------------------------------------
DATA_WIDTH == 8
INSTRUCTION_WIDTH == 16
DATA_ADDRESS_WIDTH == 16
INSTRUCTION_ADDRESS_WIDTH == 16
INSTRUCTION_FETCH_LATENCY_CYCLES == 10
\* a data memory as slow as the instruction memory
MEMORY_LATENCY_CYCLES_slow == INSTRUCTION_FETCH_LATENCY_CYCLES
MEMORY_LATENCY_CYCLES == 0

\* Optional[...] fields hold None when nothing is pending.
None == -1

\* ------------------------------------------------------------------------
\* Bit helpers (Python's >>, &, |, ^ on non-negative integers)
\* ------------------------------------------------------------------------
RECURSIVE BitAnd(_, _, _)
BitAnd(a, b, w) ==
    IF w = 0 THEN 0
    ELSE ((a % 2) * (b % 2)) + 2 * BitAnd(a \div 2, b \div 2, w - 1)

RECURSIVE BitOr(_, _, _)
BitOr(a, b, w) ==
    IF w = 0 THEN 0
    ELSE (IF (a % 2) + (b % 2) > 0 THEN 1 ELSE 0)
         + 2 * BitOr(a \div 2, b \div 2, w - 1)

RECURSIVE BitXor(_, _, _)
BitXor(a, b, w) ==
    IF w = 0 THEN 0
    ELSE (((a % 2) + (b % 2)) % 2) + 2 * BitXor(a \div 2, b \div 2, w - 1)

ShiftRight(x, n) == x \div (2 ^ n)

Bit(x, n) == ShiftRight(x, n) % 2

\* ------------------------------------------------------------------------
\* Bus values (common/data_types.py).  A bus value of width w is kept as its
\* unsigned representative; BusValue equality is by unsigned value.
\* ------------------------------------------------------------------------
BUS_WIDTH_MASK(w) == (2 ^ w) - 1

SIGN_BIT_MASK(w) == 2 ^ (w - 1)

MAX_UNSIGNED_VALUE(w) == BUS_WIDTH_MASK(w)

unsigned_value(v, w) == v % (2 ^ w)

signed_value(v, w) ==
    BitXor(SIGN_BIT_MASK(w), unsigned_value(v, w), w) - SIGN_BIT_MASK(w)

is_negative(v, w) == signed_value(v, w) < 0

BusAdd(a, b, w) ==
    (unsigned_value(a, w) + unsigned_value(b, w)) % (2 ^ w)

BusSub(a, b, w) ==
    (signed_value(a, w) - signed_value(b, w)) % (2 ^ w)

BusAnd(a, b, w) == BitAnd(unsigned_value(a, w), unsigned_value(b, w), w)

BusOr(a, b, w) == BitOr(unsigned_value(a, w), unsigned_value(b, w), w)

BusXor(a, b, w) == BitXor(unsigned_value(a, w), unsigned_value(b, w), w)

BusInvert(a, w) == MAX_UNSIGNED_VALUE(w) - unsigned_value(a, w)

DataBusValues == 0 .. MAX_UNSIGNED_VALUE(DATA_WIDTH)

\* The same arithmetic on the values a BusValue stores: NumPy scalars,
\* np.uint16 holding x % 2^16 and np.int16 the representative of x in
\* -2^15 .. 2^15 - 1; ~BUS_WIDTH_MASK is the np.uint16 complement.
sign_extend(value, w) ==
    IF BitAnd(value, SIGN_BIT_MASK(w), 16) # 0
    THEN BitOr(value, (2 ^ 16) - 1 - BUS_WIDTH_MASK(w), 16)
    ELSE value

\* the constructor on a NumPy scalar: ValueError outside the union of the
\* signed and unsigned ranges, else the sign-extended np.uint16
__post_init__(value, w) ==
    LET as_int16 == ((value + (2 ^ 15)) % (2 ^ 16)) - (2 ^ 15)
    IN  IF as_int16 < -(2 ^ (w - 1)) \/ as_int16 > MAX_UNSIGNED_VALUE(w)
        THEN [error |-> "ValueError", value |-> 0]
        ELSE [error |-> "none", value |-> sign_extend(value % (2 ^ 16), w)]

\* __add__ without the mask on the sum
__add___unmasked(a, b, w) ==
    __post_init__((unsigned_value(a, w) + unsigned_value(b, w)) % (2 ^ 16), w)

\* np.uint16 + np.uint16 wraps at 16 bits, then the mask, then the constructor
__add__(a, b, w) ==
    __post_init__(BitAnd((unsigned_value(a, w) + unsigned_value(b, w))
                             % (2 ^ 16),
                         BUS_WIDTH_MASK(w), 16), w)

\* np.int16 - np.int16 wraps at 16 bits; int16 & uint16 is an int32, whose
\* low 16 bits the mask reads
__sub__(a, b, w) ==
    __post_init__(BitAnd((signed_value(a, w) - signed_value(b, w)) % (2 ^ 16),
                         BUS_WIDTH_MASK(w), 16), w)

\* ------------------------------------------------------------------------
\* ISA tables (common/instruction_data.py)
\* ------------------------------------------------------------------------
ARITH_LOGIC_IMM == 0
ARITH_LOGIC == 1
REG_MEMORY == 2
JUMP_IMM == 4
JUMP_REG == 7
Opcode == {ARITH_LOGIC_IMM, ARITH_LOGIC, REG_MEMORY, JUMP_IMM, JUMP_REG}

ADD == 0
SUB == 1
AND == 2
OR == 4
XOR == 5
INV == 7
ArithLogicFunction == {ADD, SUB, AND, OR, XOR, INV}

LOAD == 0
STORE == 1
GET == 2
PUT == 3
SET == 4
RegMemoryFunction == {LOAD, STORE, GET, PUT, SET}

JUMP_RELATIVE == 0
JUMP_ABSOLUTE == 1

ZERO == 0
NOT_ZERO == 1
POSITIVE == 2
NEGATIVE == 3
CARRY_SET == 4
CARRY_CLEARED == 5
OVERFLOW_SET == 6
OVERFLOW_CLEARED == 7
BranchCondition == ZERO .. OVERFLOW_CLEARED

R0 == 0
R1 == 1
R2 == 2
R3 == 3
R4 == 4
R5 == 5
R6 == 6
R7 == 7
ACC == 8
DBAR == 9
DOFF == 10
IBAR == 13
IOFF == 14
STATUS == 15
RegisterIndex ==
    {R0, R1, R2, R3, R4, R5, R6, R7, ACC, DBAR, DOFF, IBAR, IOFF, STATUS}

\* ------------------------------------------------------------------------
\* ALU (simulator/modules/alu.py), operating on data-bus values
\* ------------------------------------------------------------------------
ALUOutputs(result, signed_overflow, carry_flag, error) ==
    [result |-> result, signed_overflow |-> signed_overflow,
     carry_flag |-> carry_flag, error |-> error]

\* ALU.execute with the SUB carry cleared on a borrow and set otherwise
ALU_execute_no_borrow(operand_a, operand_b, function) ==
    LET w == DATA_WIDTH
        sum == BusAdd(operand_a, operand_b, w)
        diff == BusSub(operand_a, operand_b, w)
    IN  IF function = ADD THEN
            ALUOutputs(sum,
                (is_negative(operand_a, w) = is_negative(operand_b, w))
                    /\ (is_negative(sum, w) # is_negative(operand_a, w)),
                (unsigned_value(operand_a, w) + unsigned_value(operand_b, w))
                    >= MAX_UNSIGNED_VALUE(w),
                "none")
        ELSE IF function = SUB THEN
            ALUOutputs(diff,
                (is_negative(operand_a, w) # is_negative(operand_b, w))
                    /\ (is_negative(diff, w) # is_negative(operand_a, w)),
                unsigned_value(operand_a, w) >= unsigned_value(operand_b, w),
                "none")
        ELSE IF function = AND THEN
            ALUOutputs(BusAnd(operand_a, operand_b, w), FALSE, FALSE, "none")
        ELSE IF function = OR THEN
            ALUOutputs(BusOr(operand_a, operand_b, w), FALSE, FALSE, "none")
        ELSE IF function = XOR THEN
            ALUOutputs(BusXor(operand_a, operand_b, w), FALSE, FALSE, "none")
        ELSE IF function = INV THEN
            ALUOutputs(BusInvert(operand_a, w), FALSE, FALSE, "none")
        ELSE ALUOutputs(0, FALSE, FALSE, "ValueError")

ALU_execute(operand_a, operand_b, function) ==
    LET w == DATA_WIDTH
        sum == BusAdd(operand_a, operand_b, w)
        diff == BusSub(operand_a, operand_b, w)
    IN  IF function = ADD THEN
            ALUOutputs(sum,
                (is_negative(operand_a, w) = is_negative(operand_b, w))
                    /\ (is_negative(sum, w) # is_negative(operand_a, w)),
                (unsigned_value(operand_a, w) + unsigned_value(operand_b, w))
                    >= MAX_UNSIGNED_VALUE(w),
                "none")
        ELSE IF function = SUB THEN
            ALUOutputs(diff,
                (is_negative(operand_a, w) # is_negative(operand_b, w))
                    /\ (is_negative(diff, w) # is_negative(operand_a, w)),
                unsigned_value(operand_a, w) < unsigned_value(operand_b, w),
                "none")
        ELSE IF function = AND THEN
            ALUOutputs(BusAnd(operand_a, operand_b, w), FALSE, FALSE, "none")
        ELSE IF function = OR THEN
            ALUOutputs(BusOr(operand_a, operand_b, w), FALSE, FALSE, "none")
        ELSE IF function = XOR THEN
            ALUOutputs(BusXor(operand_a, operand_b, w), FALSE, FALSE, "none")
        ELSE IF function = INV THEN
            ALUOutputs(BusInvert(operand_a, w), FALSE, FALSE, "none")
        ELSE ALUOutputs(0, FALSE, FALSE, "ValueError")

\* ------------------------------------------------------------------------
\* Decoder (modules/decoder.py).  An instruction binary is its two bytes,
\* low byte first.
\* ------------------------------------------------------------------------
from_bytes_little(data) == data[1] + 256 * data[2]

to_bytes_little(word) == <<word % 256, (word \div 256) % 256>>

\* decode with the halt flag not looking at the branch bit
decode_fields_halt_on_branch(branch_field, branch_cond_field, op_field, addr_imm_field, func_field, reg_idx_field, data_imm_field) ==
    LET is_alu == branch_field = 0
                  /\ (op_field = ARITH_LOGIC_IMM \/ op_field = ARITH_LOGIC)
        \* Enum construction raises ValueError for a value outside the enum
        enum_error == (is_alu /\ func_field \notin ArithLogicFunction)
                      \/ reg_idx_field \notin RegisterIndex
    IN  [ error |-> IF enum_error THEN "ValueError" ELSE "none",
          halt_instruction |->
              op_field = JUMP_IMM /\ addr_imm_field = 0,
          branch_instruction |-> branch_field = 1,
          branch_condition |-> branch_cond_field,
          immediate_address_value |->
              unsigned_value(addr_imm_field, INSTRUCTION_ADDRESS_WIDTH),
          alu_instruction |-> is_alu,
          alu_immediate_instruction |-> op_field = ARITH_LOGIC_IMM,
          alu_function |-> IF is_alu THEN func_field ELSE None,
          register_index |-> reg_idx_field,
          immediate_data_value |-> unsigned_value(data_imm_field, DATA_WIDTH),
          register_file_instruction |->
              branch_field = 0 /\ op_field = REG_MEMORY
              /\ func_field # LOAD /\ func_field # STORE,
          register_file_set |-> func_field = SET,
          register_file_get |-> func_field = GET,
          register_file_put |-> func_field = PUT,
          memory_instruction |->
              branch_field = 0 /\ op_field = REG_MEMORY
              /\ (func_field = LOAD \/ func_field = STORE),
          memory_load |-> func_field = LOAD,
          memory_store |-> func_field = STORE,
          jump_instruction |->
              branch_field = 0 /\ (op_field = JUMP_IMM \/ op_field = JUMP_REG),
          immediate_jump |-> op_field = JUMP_IMM,
          relative_jump |-> func_field = JUMP_RELATIVE ]

\* the DecodedInstruction built from the fields of the instruction word
decode_fields(branch_field, branch_cond_field, op_field, addr_imm_field, func_field, reg_idx_field, data_imm_field) ==
    LET is_alu == branch_field = 0
                  /\ (op_field = ARITH_LOGIC_IMM \/ op_field = ARITH_LOGIC)
        \* Enum construction raises ValueError for a value outside the enum
        enum_error == (is_alu /\ func_field \notin ArithLogicFunction)
                      \/ reg_idx_field \notin RegisterIndex
    IN  [ error |-> IF enum_error THEN "ValueError" ELSE "none",
          halt_instruction |->
              branch_field = 0 /\ op_field = JUMP_IMM /\ addr_imm_field = 0,
          branch_instruction |-> branch_field = 1,
          branch_condition |-> branch_cond_field,
          immediate_address_value |->
              unsigned_value(addr_imm_field, INSTRUCTION_ADDRESS_WIDTH),
          alu_instruction |-> is_alu,
          alu_immediate_instruction |-> op_field = ARITH_LOGIC_IMM,
          alu_function |-> IF is_alu THEN func_field ELSE None,
          register_index |-> reg_idx_field,
          immediate_data_value |-> unsigned_value(data_imm_field, DATA_WIDTH),
          register_file_instruction |->
              branch_field = 0 /\ op_field = REG_MEMORY
              /\ func_field # LOAD /\ func_field # STORE,
          register_file_set |-> func_field = SET,
          register_file_get |-> func_field = GET,
          register_file_put |-> func_field = PUT,
          memory_instruction |->
              branch_field = 0 /\ op_field = REG_MEMORY
              /\ (func_field = LOAD \/ func_field = STORE),
          memory_load |-> func_field = LOAD,
          memory_store |-> func_field = STORE,
          jump_instruction |->
              branch_field = 0 /\ (op_field = JUMP_IMM \/ op_field = JUMP_REG),
          immediate_jump |-> op_field = JUMP_IMM,
          relative_jump |-> func_field = JUMP_RELATIVE ]

\* the field extraction of decode, on the 16-bit instruction word
decode_word(inst) ==
    decode_fields(ShiftRight(inst, 0) % 2, ShiftRight(inst, 1) % 8,
                  ShiftRight(inst, 1) % 8, ShiftRight(inst, 4) % 4096,
                  ShiftRight(inst, 4) % 16, ShiftRight(inst, 8) % 16,
                  ShiftRight(inst, 8) % 256)

decode(instruction_binary) == decode_word(from_bytes_little(instruction_binary))

\* ------------------------------------------------------------------------
\* Assembler (assembler.py).  A source line is the match of
\* LABEL_AND_INSTR_RE on the text before ";": [label, instr, operand,
\* comment], with "" for a group that did not match (None).  An operand is
\* [kind, text, negative, value]: kind "none" (no operand), "word" (text is
\* the identifier) or "number" (text is the radix prefix as written, value
\* the magnitude of its digits in that radix, negative a leading "-").
\* ------------------------------------------------------------------------
\* str.upper() on the identifiers and radix prefixes source lines are
\* written with
upper(s) ==
    LET lower_case ==
            ("nop" :> "NOP") @@ ("halt" :> "HALT") @@ ("addi" :> "ADDI")
            @@ ("put" :> "PUT") @@ ("jmpi" :> "JMPI") @@ ("bnz" :> "BNZ")
            @@ ("r1" :> "R1") @@ ("loop" :> "LOOP") @@ ("Loop" :> "LOOP")
            @@ ("done" :> "DONE") @@ ("0x" :> "0X") @@ ("0b" :> "0B")
    IN  IF s \in DOMAIN lower_case THEN lower_case[s] ELSE s

BRANCH_OPCODE_CONDITION_MAP ==
    [BZ |-> ZERO, BNZ |-> NOT_ZERO, BP |-> POSITIVE, BN |-> NEGATIVE,
     BCS |-> CARRY_SET, BCC |-> CARRY_CLEARED, BOS |-> OVERFLOW_SET,
     BOC |-> OVERFLOW_CLEARED]

JUMP_IMM_OPCODE_TEXTS == {"JMPI"}

\* the Instruction dataclass with its defaults; error is the exception
\* raised while building it
Instruction ==
    [conditional_branch |-> FALSE, branch_conditon |-> None,
     opcode |-> ARITH_LOGIC_IMM, address_immediate |-> None,
     function |-> ADD, data_immediate |-> 0, register |-> None,
     error |-> "none"]

\* BusValue.__post_init__ on a Python int, as the unsigned value it stores:
\* np.int16(value) and np.uint16(value) wrap an int outside their range
\* when NumPy is older than 2.0 (numpy_wraps) and raise OverflowError
\* otherwise
BusValue(value, w, numpy_wraps) ==
    LET int16 == ((value + 32768) % 65536) - 32768
    IN  IF ~numpy_wraps /\ value \notin -32768 .. 32767
        THEN [error |-> "OverflowError", value |-> None]
        ELSE IF int16 < -(2 ^ (w - 1)) \/ int16 > MAX_UNSIGNED_VALUE(w)
        THEN [error |-> "ValueError", value |-> None]
        ELSE IF ~numpy_wraps /\ value < 0
        THEN [error |-> "OverflowError", value |-> None]
        ELSE [error |-> "none", value |-> unsigned_value(value % 65536, w)]

\* parse_immediate on the upper-cased operand: "0X" and "0B" literals,
\* decimal digits after any leading "-", anything else is invalid
parse_immediate(operand) ==
    IF operand.kind = "number" /\ ~operand.negative
       /\ operand.text \in {"0X", "0B"}
    THEN [error |-> "none", value |-> operand.value]
    ELSE IF operand.kind = "number" /\ operand.text = ""
    THEN [error |-> "none",
          value |-> IF operand.negative THEN -operand.value
                    ELSE operand.value]
    ELSE [error |-> "SyntaxError: Invalid immediate:", value |-> None]

parse_instruction(opcode_text, operand_text, numpy_wraps) ==
    LET opcode == upper(opcode_text)
        operand == [operand_text EXCEPT !.text = upper(@)]
        ArithLogicFunctionMembers ==
            [ADD |-> ADD, SUB |-> SUB, AND |-> AND, OR |-> OR, XOR |-> XOR,
             INV |-> INV]
        ArithLogicImmFunction ==
            [ADDI |-> ADD, SUBI |-> SUB, ANDI |-> AND, ORI |-> OR,
             XORI |-> XOR]
        RegMemoryFunctionMembers ==
            [LOAD |-> LOAD, STORE |-> STORE, GET |-> GET, PUT |-> PUT,
             SET |-> SET]
        JUMP_OPCODE_FUNC_MAP == [JMPR |-> JUMP_RELATIVE, JMP |-> JUMP_ABSOLUTE]
        RegisterIndexMembers ==
            [R0 |-> R0, R1 |-> R1, R2 |-> R2, R3 |-> R3, R4 |-> R4,
             R5 |-> R5, R6 |-> R6, R7 |-> R7, ACC |-> ACC, DBAR |-> DBAR,
             DOFF |-> DOFF, IBAR |-> IBAR, IOFF |-> IOFF, STATUS |-> STATUS]
        NO_OPERAND == {"JMPR", "JMP", "LOAD", "STORE", "INV"}
        REG_OPERAND == {"GET", "PUT", "ADD", "SUB", "AND", "OR", "XOR"}
        DATA_IMM_OPERAND == DOMAIN ArithLogicImmFunction \cup {"SET"}
        ADDR_IMM_OPERAND ==
            JUMP_IMM_OPCODE_TEXTS \cup DOMAIN BRANCH_OPCODE_CONDITION_MAP
        instruction ==
            IF opcode \in DOMAIN ArithLogicFunctionMembers
            THEN [Instruction EXCEPT !.opcode = ARITH_LOGIC,
                      !.function = ArithLogicFunctionMembers[opcode]]
            ELSE IF opcode \in DOMAIN ArithLogicImmFunction
            THEN [Instruction EXCEPT !.opcode = ARITH_LOGIC_IMM,
                      !.function = ArithLogicImmFunction[opcode]]
            ELSE IF opcode \in DOMAIN RegMemoryFunctionMembers
            THEN [Instruction EXCEPT !.opcode = REG_MEMORY,
                      !.function = RegMemoryFunctionMembers[opcode]]
            ELSE IF opcode \in DOMAIN JUMP_OPCODE_FUNC_MAP
            THEN [Instruction EXCEPT !.opcode = JUMP_REG,
                      !.function = JUMP_OPCODE_FUNC_MAP[opcode]]
            ELSE IF opcode \in JUMP_IMM_OPCODE_TEXTS
            THEN [Instruction EXCEPT !.opcode = JUMP_IMM]
            ELSE IF opcode \in DOMAIN BRANCH_OPCODE_CONDITION_MAP
            THEN [Instruction EXCEPT !.conditional_branch = TRUE,
                      !.branch_conditon = BRANCH_OPCODE_CONDITION_MAP[opcode]]
            ELSE Instruction
        SyntaxError == [instruction EXCEPT !.error = "SyntaxError"]
        Immediate(parsed, bus) ==
            IF parsed.error # "none"
            THEN [instruction EXCEPT !.error = parsed.error]
            ELSE IF bus.error # "none"
            THEN [instruction EXCEPT !.error = bus.error]
            ELSE IF opcode \in DATA_IMM_OPERAND
            THEN [instruction EXCEPT !.data_immediate = bus.value]
            ELSE [instruction EXCEPT !.address_immediate = bus.value]
        ImmediateOperand(parsed, w) ==
            Immediate(parsed, IF parsed.error # "none" THEN parsed
                              ELSE BusValue(parsed.value, w, numpy_wraps))
    IN  IF opcode \in NO_OPERAND
        THEN IF operand.kind # "none" THEN SyntaxError ELSE instruction
        ELSE IF operand.kind = "none" THEN SyntaxError
        ELSE IF opcode \in REG_OPERAND
        THEN IF operand.kind = "word"
                /\ operand.text \in DOMAIN RegisterIndexMembers
             THEN [instruction EXCEPT
                      !.register = RegisterIndexMembers[operand.text]]
             ELSE SyntaxError
        ELSE IF opcode \in DATA_IMM_OPERAND
        THEN ImmediateOperand(parse_immediate(operand), DATA_WIDTH)
        ELSE IF opcode \in ADDR_IMM_OPERAND
        THEN ImmediateOperand(parse_immediate(operand),
                              INSTRUCTION_ADDRESS_WIDTH)
        ELSE SyntaxError

\* replace_macros: NOP and HALT, compared as written, become ADDI 0 and
\* JMPI 0
replace_macros(instr, operand) ==
    LET zero == [kind |-> "number", text |-> "", negative |-> FALSE,
                 value |-> 0]
    IN  IF instr \in {"NOP", "HALT"}
        THEN IF operand.kind # "none"
             THEN [error |-> "SyntaxError", instr |-> instr,
                   operand |-> operand]
             ELSE [error |-> "none",
                   instr |-> IF instr = "NOP" THEN "ADDI" ELSE "JMPI",
                   operand |-> zero]
        ELSE [error |-> "none", instr |-> instr, operand |-> operand]

\* first_pass_line with a label-only line taking up an instruction's
\* address
first_pass_line_label_advances(st, line, numpy_wraps) ==
    LET labelled ==
            IF line.label = "" THEN st
            ELSE [st EXCEPT !.labels = (upper(line.label) :> st.address) @@ @]
        next_address == st.address + (INSTRUCTION_WIDTH \div 8)
        Deferred(mnemonic) ==
            IF mnemonic \in DOMAIN BRANCH_OPCODE_CONDITION_MAP
            THEN [Instruction EXCEPT !.conditional_branch = TRUE,
                      !.branch_conditon =
                          BRANCH_OPCODE_CONDITION_MAP[mnemonic]]
            ELSE [Instruction EXCEPT !.opcode = JUMP_IMM]
        Parsed(macro, instruction) ==
            IF instruction.error = "none"
            THEN [labelled EXCEPT !.instructions = Append(@, instruction),
                                  !.address = next_address]
            ELSE IF instruction.error = "SyntaxError: Invalid immediate:"
                    /\ macro.operand.kind # "none"
                    /\ upper(macro.instr) \in
                           (DOMAIN BRANCH_OPCODE_CONDITION_MAP
                            \cup JUMP_IMM_OPCODE_TEXTS)
            THEN [labelled EXCEPT
                     !.instructions = Append(@, Deferred(upper(macro.instr))),
                     !.unresolved_instructions =
                         Append(@, [instruction |-> Len(st.instructions) + 1,
                                    label_ref |-> upper(macro.operand.text),
                                    address |-> st.address]),
                     !.address = next_address]
            ELSE [labelled EXCEPT !.error = instruction.error]
        Replaced(macro) ==
            IF macro.error # "none"
            THEN [labelled EXCEPT !.error = macro.error]
            ELSE Parsed(macro, parse_instruction(macro.instr, macro.operand,
                                                 numpy_wraps))
    IN  IF line.label = "" /\ line.instr = "" THEN st
        ELSE IF line.instr = "" THEN [labelled EXCEPT !.address = next_address]
        ELSE Replaced(replace_macros(line.instr, line.operand))

\* the first pass on one line: nothing for a line empty before ";", the
\* label at the current address, then replace_macros and
\* parse_instruction: the instruction is appended, or a branch / JMPI whose
\* operand is not an immediate is deferred as a label reference
first_pass_line(st, line, numpy_wraps) ==
    LET labelled ==
            IF line.label = "" THEN st
            ELSE [st EXCEPT !.labels = (upper(line.label) :> st.address) @@ @]
        next_address == st.address + (INSTRUCTION_WIDTH \div 8)
        Deferred(mnemonic) ==
            IF mnemonic \in DOMAIN BRANCH_OPCODE_CONDITION_MAP
            THEN [Instruction EXCEPT !.conditional_branch = TRUE,
                      !.branch_conditon =
                          BRANCH_OPCODE_CONDITION_MAP[mnemonic]]
            ELSE [Instruction EXCEPT !.opcode = JUMP_IMM]
        Parsed(macro, instruction) ==
            IF instruction.error = "none"
            THEN [labelled EXCEPT !.instructions = Append(@, instruction),
                                  !.address = next_address]
            ELSE IF instruction.error = "SyntaxError: Invalid immediate:"
                    /\ macro.operand.kind # "none"
                    /\ upper(macro.instr) \in
                           (DOMAIN BRANCH_OPCODE_CONDITION_MAP
                            \cup JUMP_IMM_OPCODE_TEXTS)
            THEN [labelled EXCEPT
                     !.instructions = Append(@, Deferred(upper(macro.instr))),
                     !.unresolved_instructions =
                         Append(@, [instruction |-> Len(st.instructions) + 1,
                                    label_ref |-> upper(macro.operand.text),
                                    address |-> st.address]),
                     !.address = next_address]
            ELSE [labelled EXCEPT !.error = instruction.error]
        Replaced(macro) ==
            IF macro.error # "none"
            THEN [labelled EXCEPT !.error = macro.error]
            ELSE Parsed(macro, parse_instruction(macro.instr, macro.operand,
                                                 numpy_wraps))
    IN  IF line.label = "" /\ line.instr = "" THEN st
        ELSE IF line.instr = "" THEN labelled
        ELSE Replaced(replace_macros(line.instr, line.operand))

RECURSIVE first_pass(_, _, _)
first_pass(st, lines, numpy_wraps) ==
    IF lines = <<>> \/ st.error # "none" THEN st
    ELSE first_pass(first_pass_line(st, Head(lines), numpy_wraps),
                    Tail(lines), numpy_wraps)

\* the second pass: each reference gets offset = its label's address - the
\* address of the referencing instruction, as an instruction-address bus
\* value; a label defined nowhere is a SyntaxError
RECURSIVE second_pass(_, _, _)
second_pass(st, unresolved_instructions, numpy_wraps) ==
    LET ref == Head(unresolved_instructions)
        Resolved(bus) ==
            IF bus.error # "none" THEN [st EXCEPT !.error = bus.error]
            ELSE [st EXCEPT
                     !.instructions[ref.instruction].address_immediate =
                         bus.value]
        Resolve ==
            IF ref.label_ref \notin DOMAIN st.labels
            THEN [st EXCEPT !.error = "SyntaxError: Undefined label:"]
            ELSE Resolved(BusValue(st.labels[ref.label_ref] - ref.address,
                                   INSTRUCTION_ADDRESS_WIDTH, numpy_wraps))
    IN  IF unresolved_instructions = <<>> \/ st.error # "none" THEN st
        ELSE second_pass(Resolve, Tail(unresolved_instructions), numpy_wraps)

\* parse_assembly: the first pass over the lines, then the second pass when
\* the first raised nothing
parse_assembly(source, numpy_wraps) ==
    LET SecondPass(st) ==
            second_pass(IF st.error = "none" THEN [st EXCEPT !.pass = 2]
                        ELSE st,
                        st.unresolved_instructions, numpy_wraps)
    IN  SecondPass(
            first_pass([labels |-> [l \in {} |-> 0], instructions |-> <<>>,
                        unresolved_instructions |-> <<>>, address |-> 0,
                        pass |-> 1, error |-> "none"],
                       source, numpy_wraps))

\* encode_instruction: the fields OR-ed into the word, then
\* to_bytes(2, "little"), which raises OverflowError for a word of more
\* than 16 bits
encode_instruction(instr) ==
    LET Or(a, b) == BitOr(a, b, 24)
        head_error ==
            instr.conditional_branch
            /\ (instr.branch_conditon = None \/ instr.address_immediate = None)
        head ==
            IF instr.conditional_branch
            THEN Or(Or(1, instr.branch_conditon * 2),
                    instr.address_immediate * 16)
            ELSE instr.opcode * 2
        body_error ==
            \/ instr.opcode = ARITH_LOGIC
               /\ instr.function # INV /\ instr.register = None
            \/ instr.opcode = ARITH_LOGIC_IMM /\ instr.data_immediate = None
            \/ instr.opcode = JUMP_IMM /\ instr.address_immediate = None
            \/ instr.opcode = JUMP_REG /\ instr.register = None
        operand_bits ==
            IF instr.opcode = ARITH_LOGIC
            THEN IF instr.function # INV THEN instr.register * 256 ELSE 0
            ELSE IF instr.opcode = ARITH_LOGIC_IMM
            THEN instr.data_immediate * 256
            ELSE IF instr.opcode = REG_MEMORY
            THEN IF instr.register # None THEN instr.register * 256
                 ELSE IF instr.data_immediate # None
                 THEN instr.data_immediate * 256 ELSE 0
            ELSE IF instr.opcode = JUMP_IMM
            THEN instr.address_immediate * 16
            ELSE instr.register * 256
        function_bits ==
            IF instr.opcode = JUMP_IMM THEN 0 ELSE instr.function * 16
        Encoded(binary) ==
            IF binary >= 2 ^ 16
            THEN [error |-> "OverflowError", data |-> <<>>]
            ELSE [error |-> "none", data |-> to_bytes_little(binary)]
    IN  IF head_error \/ body_error
        THEN [error |-> "ValueError", data |-> <<>>]
        ELSE Encoded(Or(Or(head, function_bits), operand_bits))

RECURSIVE encode_instructions(_, _)
encode_instructions(instructions, binary) ==
    IF instructions = <<>> THEN [error |-> "none", binary |-> binary]
    ELSE LET encoded == encode_instruction(Head(instructions))
         IN  IF encoded.error # "none"
             THEN [error |-> encoded.error, binary |-> <<>>]
             ELSE encode_instructions(Tail(instructions),
                                      binary \o encoded.data)

\* assemble: parse_assembly, then the instructions' bytes in order; the
\* result keeps what parse_assembly returned next to the bytes
assemble(source, numpy_wraps) ==
    LET Result(parsed, encoded) ==
            [error |-> IF parsed.error # "none" THEN parsed.error
                       ELSE encoded.error,
             binary |-> IF parsed.error # "none" THEN <<>>
                        ELSE encoded.binary,
             instructions |-> parsed.instructions,
             labels |-> parsed.labels,
             unresolved_instructions |-> parsed.unresolved_instructions,
             pass |-> parsed.pass, parse_error |-> parsed.error]
        Encode(parsed) ==
            Result(parsed,
                   IF parsed.error # "none"
                   THEN [error |-> "none", binary |-> <<>>]
                   ELSE encode_instructions(parsed.instructions, <<>>))
    IN  Encode(parse_assembly(source, numpy_wraps))

\* ------------------------------------------------------------------------
\* Register file (modules/register_file.py)
\* ------------------------------------------------------------------------
RegisterFileState ==
    [ registers |-> [r \in RegisterIndex |-> IF r = STATUS THEN 3 ELSE 0],
      pending_register |-> None,
      pending_value |-> None,
      pending_carry_flag |-> None,
      pending_signed_overflow |-> None,
      pending_accumulator |-> None ]

get_acc_value(rf) == rf.registers[ACC]

\* get_dmar_value with the two halves exchanged
get_dmar_value_swapped(rf) ==
    BitOr(BitAnd(unsigned_value(rf.registers[DOFF], DATA_WIDTH),
                 (2 ^ (DATA_ADDRESS_WIDTH - DATA_WIDTH)) - 1, DATA_WIDTH)
              * (2 ^ DATA_WIDTH),
          unsigned_value(rf.registers[DBAR], DATA_WIDTH),
          DATA_ADDRESS_WIDTH)

get_dmar_value(rf) ==
    BitOr(BitAnd(unsigned_value(rf.registers[DBAR], DATA_WIDTH),
                 (2 ^ (DATA_ADDRESS_WIDTH - DATA_WIDTH)) - 1, DATA_WIDTH)
              * (2 ^ DATA_WIDTH),
          unsigned_value(rf.registers[DOFF], DATA_WIDTH),
          DATA_ADDRESS_WIDTH)

get_imar_value(rf) ==
    BitOr(BitAnd(unsigned_value(rf.registers[IBAR], DATA_WIDTH),
                 (2 ^ (INSTRUCTION_ADDRESS_WIDTH - DATA_WIDTH)) - 1, DATA_WIDTH)
              * (2 ^ DATA_WIDTH),
          unsigned_value(rf.registers[IOFF], DATA_WIDTH),
          INSTRUCTION_ADDRESS_WIDTH)

StatusRegisterValue(zero, positive, carry_set, signed_overflow_set) ==
    [zero |-> zero, positive |-> positive, carry_set |-> carry_set,
     signed_overflow_set |-> signed_overflow_set]

get_status_register_value(rf) ==
    LET status_value == unsigned_value(rf.registers[STATUS], DATA_WIDTH)
    IN  StatusRegisterValue(Bit(status_value, 0) = 1, Bit(status_value, 1) = 1,
                            Bit(status_value, 2) = 1, Bit(status_value, 3) = 1)

set_next_register_value(rf, register_index, value) ==
    [rf EXCEPT !.pending_register = register_index, !.pending_value = value]

Bool2Int(b) == IF b THEN 1 ELSE 0

\* set_next_status_register_value with the two flags exchanged
set_next_status_register_value_swapped(rf, signed_overflow, carry_flag) ==
    [rf EXCEPT !.pending_carry_flag = Bool2Int(signed_overflow),
               !.pending_signed_overflow = Bool2Int(carry_flag)]

set_next_status_register_value(rf, signed_overflow, carry_flag) ==
    [rf EXCEPT !.pending_carry_flag = Bool2Int(carry_flag),
               !.pending_signed_overflow = Bool2Int(signed_overflow)]

\* set_next_acc_value that also schedules cleared carry and overflow
set_next_acc_value_clears_flags(rf, value) ==
    [rf EXCEPT !.pending_accumulator = value,
               !.pending_carry_flag = 0,
               !.pending_signed_overflow = 0]

\* set_next_acc_value writing the accumulator at once
set_next_acc_value_direct(rf, value) == [rf EXCEPT !.registers[ACC] = value]

set_next_acc_value(rf, value) == [rf EXCEPT !.pending_accumulator = value]

\* compute_next_status_bit that never takes the pending bit
compute_next_status_bit_keeps(current_status_value, shift, pending) ==
    Bit(current_status_value, shift) * (2 ^ shift)

\* next status bit: the pending bit when one is pending, else the current bit
compute_next_status_bit(current_status_value, shift, pending) ==
    (IF pending # None THEN pending ELSE Bit(current_status_value, shift))
        * (2 ^ shift)

\* the register write-back of update_state: the pending register, then ACC
write_back_registers(rf) ==
    [r \in RegisterIndex |->
        IF r = ACC /\ rf.pending_accumulator # None THEN rf.pending_accumulator
        ELSE IF r = rf.pending_register THEN rf.pending_value
        ELSE rf.registers[r]]

\* next_status_register_value with the zero and positive bits exchanged
next_status_register_value_swapped(rf, current_status_value, zero, positive) ==
    compute_next_status_bit(current_status_value, 0, positive)
    + compute_next_status_bit(current_status_value, 1, zero)
    + compute_next_status_bit(current_status_value, 2, rf.pending_carry_flag)
    + compute_next_status_bit(current_status_value, 3,
                              rf.pending_signed_overflow)

\* the STATUS value update_state computes from the written-back registers
next_status_register_value(rf, current_status_value, zero, positive) ==
    compute_next_status_bit(current_status_value, 0, zero)
    + compute_next_status_bit(current_status_value, 1, positive)
    + compute_next_status_bit(current_status_value, 2, rf.pending_carry_flag)
    + compute_next_status_bit(current_status_value, 3,
                              rf.pending_signed_overflow)

\* the end of update_state: STATUS rewritten, the pending register cleared
write_back_status(rf, regs) ==
    [rf EXCEPT !.registers =
                   [regs EXCEPT ![STATUS] =
                       next_status_register_value(rf,
                           unsigned_value(regs[STATUS], DATA_WIDTH),
                           IF rf.pending_accumulator # None
                           THEN Bool2Int(unsigned_value(rf.pending_accumulator,
                                                        DATA_WIDTH) = 0)
                           ELSE None,
                           IF rf.pending_accumulator # None
                           THEN Bool2Int(signed_value(rf.pending_accumulator,
                                                      DATA_WIDTH) >= 0)
                           ELSE None)],
               !.pending_register = None,
               !.pending_value = None]

\* update_state without the check that protects ACC and STATUS
rf_update_state_unprotected(rf) ==
    IF rf.pending_register # None /\ rf.pending_value = None THEN
        [rf |-> rf, error |-> "ValueError"]
    ELSE IF rf.pending_register # None
            /\ rf.pending_register \notin RegisterIndex THEN
        [rf |-> rf, error |-> "IndexError"]
    ELSE
        [rf |-> write_back_status(rf, write_back_registers(rf)),
         error |-> "none"]

\* update_state returns the new register-file state and the error it raised
rf_update_state(rf) ==
    IF rf.pending_register # None /\ rf.pending_value = None THEN
        [rf |-> rf, error |-> "ValueError"]
    ELSE IF rf.pending_register = STATUS \/ rf.pending_register = ACC THEN
        [rf |-> rf, error |-> "IndexError"]
    ELSE IF rf.pending_register # None
            /\ rf.pending_register \notin RegisterIndex THEN
        [rf |-> rf, error |-> "IndexError"]
    ELSE
        [rf |-> write_back_status(rf, write_back_registers(rf)),
         error |-> "none"]

\* ------------------------------------------------------------------------
\* Program counter (modules/program_counter.py)
\* ------------------------------------------------------------------------
ProgramCounterState == [value |-> 0, next_value |-> None, stall |-> FALSE]

increment(pc) ==
    [pc EXCEPT !.next_value =
        BusAdd(pc.value, INSTRUCTION_WIDTH \div 8, INSTRUCTION_ADDRESS_WIDTH)]

jump_relative(pc, offset) ==
    [pc EXCEPT !.next_value =
        BusAdd(pc.value, offset, INSTRUCTION_ADDRESS_WIDTH)]

jump_absolute(pc, address) == [pc EXCEPT !.next_value = address]

\* branch_taken with NEGATIVE testing the zero flag
branch_taken_negative_zero(status_register, branch_condition) ==
    IF branch_condition = ZERO THEN status_register.zero
    ELSE IF branch_condition = NOT_ZERO THEN ~status_register.zero
    ELSE IF branch_condition = POSITIVE THEN status_register.positive
    ELSE IF branch_condition = NEGATIVE THEN ~status_register.zero
    ELSE IF branch_condition = CARRY_SET THEN status_register.carry_set
    ELSE IF branch_condition = CARRY_CLEARED THEN ~status_register.carry_set
    ELSE IF branch_condition = OVERFLOW_SET
        THEN status_register.signed_overflow_set
    ELSE IF branch_condition = OVERFLOW_CLEARED
        THEN ~status_register.signed_overflow_set
    ELSE FALSE

branch_taken(status_register, branch_condition) ==
    IF branch_condition = ZERO THEN status_register.zero
    ELSE IF branch_condition = NOT_ZERO THEN ~status_register.zero
    ELSE IF branch_condition = POSITIVE THEN status_register.positive
    ELSE IF branch_condition = NEGATIVE THEN ~status_register.positive
    ELSE IF branch_condition = CARRY_SET THEN status_register.carry_set
    ELSE IF branch_condition = CARRY_CLEARED THEN ~status_register.carry_set
    ELSE IF branch_condition = OVERFLOW_SET
        THEN status_register.signed_overflow_set
    ELSE IF branch_condition = OVERFLOW_CLEARED
        THEN ~status_register.signed_overflow_set
    ELSE FALSE

conditionally_branch(pc, status_register, offset, branch_condition) ==
    IF branch_taken(status_register, branch_condition)
    THEN jump_relative(pc, offset)
    ELSE increment(pc)

set_stall(pc, stall) == [pc EXCEPT !.stall = stall]

pc_update_state(pc) ==
    IF pc.stall THEN [pc |-> pc, error |-> "none"]
    ELSE IF pc.next_value # None
    THEN [pc |-> [pc EXCEPT !.value = pc.next_value, !.next_value = None],
          error |-> "none"]
    ELSE [pc |-> pc, error |-> "ValueError"]

\* ------------------------------------------------------------------------
\* Memories (modules/base_memory.py, data_memory.py, instruction_memory.py)
\* A memory's backing store is a function whose domain is the set of
\* addresses written so far.
\* ------------------------------------------------------------------------
EmptyMemory == [a \in {} |-> 0]

BaseMemoryState ==
    [ pending_address |-> None, pending_data |-> None,
      remaining_cycles |-> None, memory |-> EmptyMemory ]

\* _start_operation taking the new request in place of the outstanding one
start_operation_overwrites(ms, latency_cycles, address, data) ==
    [ms |-> [ms EXCEPT !.pending_address = address,
                       !.pending_data = data,
                       !.remaining_cycles =
                           IF ms.remaining_cycles = None
                           THEN latency_cycles ELSE ms.remaining_cycles],
     error |-> "none"]

\* _start_operation starting the countdown again at every request
start_operation_restarts(ms, latency_cycles, address, data) ==
    IF ms.pending_address # None /\ ms.pending_address # address THEN
        [ms |-> ms, error |-> "ValueError"]
    ELSE IF data # None /\ ms.pending_data # None /\ ms.pending_data # data THEN
        [ms |-> ms, error |-> "ValueError"]
    ELSE
        [ms |-> [ms EXCEPT !.pending_address = address,
                           !.pending_data = data,
                           !.remaining_cycles = latency_cycles],
         error |-> "none"]

start_operation(ms, latency_cycles, address, data) ==
    IF ms.pending_address # None /\ ms.pending_address # address THEN
        [ms |-> ms, error |-> "ValueError"]
    ELSE IF data # None /\ ms.pending_data # None /\ ms.pending_data # data THEN
        [ms |-> ms, error |-> "ValueError"]
    ELSE
        [ms |-> [ms EXCEPT !.pending_address = address,
                           !.pending_data = data,
                           !.remaining_cycles =
                               IF ms.remaining_cycles = None
                               THEN latency_cycles ELSE ms.remaining_cycles],
         error |-> "none"]

operation_complete(ms) ==
    LET complete == ms.remaining_cycles # None /\ ms.remaining_cycles = 0
    IN  [ms |-> IF complete THEN [ms EXCEPT !.remaining_cycles = None] ELSE ms,
         complete |-> complete]

\* complete_write that keeps only the cell just written
complete_write_single(ms) ==
    IF ms.pending_address # None /\ ms.pending_data # None
    THEN [ms EXCEPT !.memory =
                        [a \in {ms.pending_address} |-> ms.pending_data],
                    !.pending_address = None,
                    !.pending_data = None]
    ELSE ms

complete_write(ms) ==
    IF ms.pending_address # None /\ ms.pending_data # None
    THEN [ms EXCEPT !.memory =
                        [a \in (DOMAIN ms.memory) \cup {ms.pending_address} |->
                            IF a = ms.pending_address THEN ms.pending_data
                            ELSE ms.memory[a]],
                    !.pending_address = None,
                    !.pending_data = None]
    ELSE ms

\* _read_value that leaves the request pending after handing out its value
read_value_keeps_pending(ms) ==
    IF ms.pending_address = None THEN
        [ms |-> ms, value |-> None, error |-> "ValueError"]
    ELSE IF ms.pending_address \notin DOMAIN ms.memory THEN
        [ms |-> ms, value |-> None, error |-> "ValueError"]
    ELSE
        [ms |-> ms, value |-> ms.memory[ms.pending_address], error |-> "none"]

\* value is meaningful only when error = "none"
read_value(ms) ==
    IF ms.pending_address = None THEN
        [ms |-> ms, value |-> None, error |-> "ValueError"]
    ELSE IF ms.pending_address \notin DOMAIN ms.memory THEN
        [ms |-> ms, value |-> None, error |-> "ValueError"]
    ELSE
        [ms |-> [ms EXCEPT !.pending_address = None, !.pending_data = None],
         value |-> ms.memory[ms.pending_address],
         error |-> "none"]

mem_update_state(ms) ==
    IF ms.remaining_cycles # None /\ ms.remaining_cycles > 0
    THEN [ms EXCEPT !.remaining_cycles = ms.remaining_cycles - 1]
    ELSE ms

\* store_complete once operation_complete has answered
store_checked(oc) ==
    [ms |-> IF oc.complete THEN complete_write(oc.ms) ELSE oc.ms,
     complete |-> oc.complete]

store_complete(ms) == store_checked(operation_complete(ms))

\* side_load without the clear: the words of the image are stored over what
\* the memory held
side_load_keeps_memory(ms, binary) ==
    LET chunk_size == INSTRUCTION_WIDTH \div 8
        addrs == {addr \in 0 .. Len(binary) :
                     addr % chunk_size = 0 /\ addr + chunk_size <= Len(binary)}
    IN  [ms EXCEPT !.memory =
            [addr \in addrs |-> SubSeq(binary, addr + 1, addr + chunk_size)]
            @@ @]

\* side_load: clear the memory, then store each complete 2-byte chunk at its
\* byte address
side_load(ms, binary) ==
    LET chunk_size == INSTRUCTION_WIDTH \div 8
        addrs == {addr \in 0 .. Len(binary) :
                     addr % chunk_size = 0 /\ addr + chunk_size <= Len(binary)}
    IN  [ms EXCEPT !.memory =
            [addr \in addrs |-> SubSeq(binary, addr + 1, addr + chunk_size)]]

\* ------------------------------------------------------------------------
\* Simulator driver (simulator.py).  The stage handlers work on a machine
\* record m = [im, dm, rf, pc, state, error]; a raised exception is recorded
\* in m.error and ends the cycle with the state mutated so far.
\* ------------------------------------------------------------------------
SimulatorState == [cycle_count |-> 0, halted |-> FALSE, stalled |-> FALSE]

Raise(m, kind) == [m EXCEPT !.error = kind]

SetStalled(m, flag) ==
    [m EXCEPT !.state.stalled = flag, !.pc = set_stall(m.pc, flag)]

\* _handle_fetch_stage after fetch_ready has answered
fetch_checked(m, rdy) ==
    [m |-> SetStalled([m EXCEPT !.im = rdy.ms], ~rdy.complete),
     ok |-> rdy.complete]

\* _handle_fetch_stage after request_fetch
fetch_requested(m, req) ==
    IF req.error # "none" THEN [m |-> Raise(m, req.error), ok |-> FALSE]
    ELSE fetch_checked(m, operation_complete(req.ms))

\* _handle_fetch_stage: ok is FALSE when the fetch stalled or raised
handle_fetch_stage(m) ==
    fetch_requested(m, start_operation(m.im, INSTRUCTION_FETCH_LATENCY_CYCLES,
                                       m.pc.value, None))

\* decode_checked without the halted flag being set on HALT
decode_checked_nohalt(m, decoded_instruction) ==
    IF decoded_instruction.error # "none"
    THEN [m |-> Raise(m, decoded_instruction.error),
          proceed |-> FALSE, decoded |-> None]
    ELSE IF decoded_instruction.halt_instruction
    THEN [m |-> m, proceed |-> FALSE, decoded |-> None]
    ELSE [m |-> m, proceed |-> TRUE, decoded |-> decoded_instruction]

\* _handle_decode_stage after the decode unit has answered
decode_checked(m, decoded_instruction) ==
    IF decoded_instruction.error # "none"
    THEN [m |-> Raise(m, decoded_instruction.error),
          proceed |-> FALSE, decoded |-> None]
    ELSE IF decoded_instruction.halt_instruction
    THEN [m |-> [m EXCEPT !.state.halted = TRUE],
          proceed |-> FALSE, decoded |-> None]
    ELSE [m |-> m, proceed |-> TRUE, decoded |-> decoded_instruction]

\* _handle_decode_stage after get_fetch_result
decode_fetched(m, res) ==
    IF res.error # "none"
    THEN [m |-> Raise(m, res.error), proceed |-> FALSE, decoded |-> None]
    ELSE decode_checked([m EXCEPT !.im = res.ms], decode(res.value))

\* _handle_decode_stage: proceed is FALSE when the cycle ends here (halt or
\* raise); decoded is the decoded instruction otherwise
handle_decode_stage(m) == decode_fetched(m, read_value(m.im))

get_alu_operand_b(m, decoded_instruction) ==
    IF decoded_instruction.alu_immediate_instruction
    THEN decoded_instruction.immediate_data_value
    ELSE m.rf.registers[decoded_instruction.register_index]

\* _execute_alu_operation after the ALU has answered
alu_write_back(m, alu_outputs) ==
    IF alu_outputs.error # "none" THEN Raise(m, alu_outputs.error)
    ELSE [m EXCEPT !.rf =
            set_next_status_register_value(
                set_next_acc_value(m.rf, alu_outputs.result),
                alu_outputs.signed_overflow, alu_outputs.carry_flag)]

execute_alu_operation(m, decoded_instruction, operand_b) ==
    alu_write_back(m, ALU_execute(get_acc_value(m.rf), operand_b,
                                  decoded_instruction.alu_function))

\* _handle_register_operation with GET writing ACC into the register
handle_register_operation_get_as_put(m, decoded_instruction) ==
    IF decoded_instruction.register_file_set THEN
        [m EXCEPT !.rf =
            set_next_acc_value(m.rf, decoded_instruction.immediate_data_value)]
    ELSE IF decoded_instruction.register_file_get
            \/ decoded_instruction.register_file_put THEN
        [m EXCEPT !.rf =
            set_next_register_value(m.rf, decoded_instruction.register_index,
                                    get_acc_value(m.rf))]
    ELSE Raise(m, "RuntimeError")

handle_register_operation(m, decoded_instruction) ==
    IF decoded_instruction.register_file_set THEN
        [m EXCEPT !.rf =
            set_next_acc_value(m.rf, decoded_instruction.immediate_data_value)]
    ELSE IF decoded_instruction.register_file_get THEN
        [m EXCEPT !.rf =
            set_next_acc_value(m.rf,
                m.rf.registers[decoded_instruction.register_index])]
    ELSE IF decoded_instruction.register_file_put THEN
        [m EXCEPT !.rf =
            set_next_register_value(m.rf, decoded_instruction.register_index,
                                    get_acc_value(m.rf))]
    ELSE Raise(m, "RuntimeError")

handle_execute_stage(m, decoded_instruction) ==
    IF decoded_instruction.alu_instruction THEN
        execute_alu_operation(m, decoded_instruction,
                              get_alu_operand_b(m, decoded_instruction))
    ELSE IF decoded_instruction.register_file_instruction THEN
        handle_register_operation(m, decoded_instruction)
    ELSE m

\* load_result that reads an unwritten address as zero
load_result_default(m, res) ==
    IF res.error # "none"
    THEN [m |-> [m EXCEPT !.rf = set_next_acc_value(m.rf, 0)], ok |-> TRUE]
    ELSE [m |-> [m EXCEPT !.dm = res.ms,
                          !.rf = set_next_acc_value(m.rf, res.value)],
          ok |-> TRUE]

\* _handle_memory_load after get_load_result
load_result(m, res) ==
    IF res.error # "none" THEN [m |-> Raise(m, res.error), ok |-> FALSE]
    ELSE [m |-> [m EXCEPT !.dm = res.ms,
                          !.rf = set_next_acc_value(m.rf, res.value)],
          ok |-> TRUE]

\* _handle_memory_load after load_ready has answered
load_checked(m, rdy) ==
    IF ~rdy.complete
    THEN [m |-> SetStalled([m EXCEPT !.dm = rdy.ms], TRUE), ok |-> FALSE]
    ELSE load_result(SetStalled([m EXCEPT !.dm = rdy.ms], FALSE),
                     read_value(rdy.ms))

\* _handle_memory_load after request_load
load_requested(m, req) ==
    IF req.error # "none" THEN [m |-> Raise(m, req.error), ok |-> FALSE]
    ELSE load_checked(m, operation_complete(req.ms))

\* _handle_memory_load / _handle_memory_store: ok is FALSE on stall or raise
handle_memory_load(m) ==
    load_requested(m, start_operation(m.dm, MEMORY_LATENCY_CYCLES,
                                      get_dmar_value(m.rf), None))

\* _handle_memory_store after store_complete has answered
store_done(m, done) ==
    [m |-> SetStalled([m EXCEPT !.dm = done.ms], ~done.complete),
     ok |-> done.complete]

\* _handle_memory_store after request_store
store_requested(m, req) ==
    IF req.error # "none" THEN [m |-> Raise(m, req.error), ok |-> FALSE]
    ELSE store_done(m, store_complete(req.ms))

handle_memory_store(m) ==
    store_requested(m, start_operation(m.dm, MEMORY_LATENCY_CYCLES,
                                       get_dmar_value(m.rf),
                                       get_acc_value(m.rf)))

handle_memory_stage(m, decoded_instruction) ==
    IF ~decoded_instruction.memory_instruction THEN [m |-> m, ok |-> TRUE]
    ELSE IF decoded_instruction.memory_load THEN handle_memory_load(m)
    ELSE IF decoded_instruction.memory_store THEN handle_memory_store(m)
    ELSE [m |-> Raise(m, "RuntimeError"), ok |-> FALSE]

\* _handle_jump_instruction with the two register jumps exchanged
handle_jump_instruction_swapped(m, decoded_instruction) ==
    IF decoded_instruction.immediate_jump THEN
        [m EXCEPT !.pc =
            jump_relative(m.pc, decoded_instruction.immediate_address_value)]
    ELSE IF decoded_instruction.relative_jump THEN
        [m EXCEPT !.pc = jump_absolute(m.pc, get_imar_value(m.rf))]
    ELSE [m EXCEPT !.pc = jump_relative(m.pc, get_imar_value(m.rf))]

handle_jump_instruction(m, decoded_instruction) ==
    IF decoded_instruction.immediate_jump THEN
        [m EXCEPT !.pc =
            jump_relative(m.pc, decoded_instruction.immediate_address_value)]
    ELSE IF decoded_instruction.relative_jump THEN
        [m EXCEPT !.pc = jump_relative(m.pc, get_imar_value(m.rf))]
    ELSE [m EXCEPT !.pc = jump_absolute(m.pc, get_imar_value(m.rf))]

update_program_counter(m, decoded_instruction) ==
    IF decoded_instruction.branch_instruction THEN
        [m EXCEPT !.pc =
            conditionally_branch(m.pc, get_status_register_value(m.rf),
                                 decoded_instruction.immediate_address_value,
                                 decoded_instruction.branch_condition)]
    ELSE IF decoded_instruction.jump_instruction THEN
        handle_jump_instruction(m, decoded_instruction)
    ELSE [m EXCEPT !.pc = increment(m.pc)]

\* how _execute_cycle ended: "stalled", "halted", "executed" (all stages
\* ran) or "raised", with the machine it left
cycle_end(m, how) ==
    [m |-> m, outcome |-> IF m.error # "none" THEN "raised" ELSE how]

\* _execute_cycle from the memory stage's answer on
after_memory_stage(g, decoded_instruction) ==
    IF ~g.ok THEN cycle_end(g.m, "stalled")
    ELSE cycle_end(update_program_counter(g.m, decoded_instruction),
                   "executed")

\* _execute_cycle from the execute stage's answer on
after_execute_stage(m, decoded_instruction) ==
    IF m.error # "none" THEN cycle_end(m, "raised")
    ELSE after_memory_stage(handle_memory_stage(m, decoded_instruction),
                            decoded_instruction)

\* _execute_cycle from the decode stage's answer on
after_decode_stage(d) ==
    IF ~d.proceed THEN cycle_end(d.m, "halted")
    ELSE after_execute_stage(handle_execute_stage(d.m, d.decoded), d.decoded)

\* _execute_cycle from the fetch stage's answer on
after_fetch_stage(f) ==
    IF ~f.ok THEN cycle_end(f.m, "stalled")
    ELSE after_decode_stage(handle_decode_stage(f.m))

\* _execute_cycle: the machine after the cycle and how the cycle ended
execute_cycle(m) == after_fetch_stage(handle_fetch_stage(m))

\* _update_module_states after the register file has committed
commit_program_counter(m, p) ==
    IF p.error # "none" THEN Raise(m, p.error) ELSE [m EXCEPT !.pc = p.pc]

\* _update_module_states after the register file's update_state
commit_memories(m, r) ==
    IF r.error # "none" THEN Raise(m, r.error)
    ELSE commit_program_counter(
             [m EXCEPT !.rf = r.rf, !.im = mem_update_state(m.im),
                       !.dm = mem_update_state(m.dm)],
             pc_update_state(m.pc))

\* _update_module_states: register file, instruction memory, data memory,
\* program counter, in that order; the first error ends it
update_module_states(m) == commit_memories(m, rf_update_state(m.rf))

\* ------------------------------------------------------------------------
\* Instruction words, by the bit layout the decoder reads and the assembler
\* writes (bit 0 branch flag, bits 1..3 opcode/condition, bits 4..7 function,
\* bits 8..15 register index / data immediate, bits 4..15 address immediate)
\* ------------------------------------------------------------------------
AluImmWord(function, imm) ==
    (ARITH_LOGIC_IMM * 2) + (function * 16) + (imm * 256)

AluRegWord(function, register) ==
    (ARITH_LOGIC * 2) + (function * 16) + (register * 256)

RegMemWord(function, operand) ==
    (REG_MEMORY * 2) + (function * 16) + (operand * 256)

JumpImmWord(address_immediate) ==
    (JUMP_IMM * 2) + ((address_immediate % 4096) * 16)

JumpRegWord(function) == (JUMP_REG * 2) + (function * 16)

BranchWord(condition, address_immediate) ==
    1 + (condition * 2) + ((address_immediate % 4096) * 16)

HaltWord == JumpImmWord(0)

\* the byte image of a sequence of instruction words
RECURSIVE ImageOf(_)
ImageOf(words) ==
    IF words = <<>> THEN <<>>
    ELSE to_bytes_little(Head(words)) \o ImageOf(Tail(words))

\* all sequences of 1..n elements of S
SeqsUpTo(S, n) == UNION {[1 .. k -> S] : k \in 1 .. n}

\* ------------------------------------------------------------------------
\* Bounds and inputs
\* ------------------------------------------------------------------------
MaxProgLen == 3
MaxMemProgLen == 5
MaxRegProgLen == 3
MaxBranchProgLen == 3
MaxAluProgLen == 3
MaxRuns == 2
MaxCycles == 60
MaxSourceLines == 3
MaxJumpProgLen == 3
MaxTicks == 11
MaxRequests == 3
MaxPcCalls == 6
MaxFlagProgLen == 3
MaxLoads == 2
MaxResets == 1

Images(alphabet, n) == {ImageOf(p) : p \in SeqsUpTo(alphabet, n)}

\* programs that write the halves of DMAR and IMAR and use them: stores,
\* register jumps and immediate jumps; the longer ones set both halves
\* before the use, with IMAR = 0xFFFF taking PC + IMAR past 2^16
JumpImages ==
    LET JumpAlphabet ==
            { RegMemWord(SET, 2), RegMemWord(SET, 255),
              RegMemWord(PUT, DBAR), RegMemWord(PUT, DOFF),
              RegMemWord(PUT, IBAR), RegMemWord(PUT, IOFF),
              RegMemWord(STORE, 0), JumpImmWord(4),
              JumpRegWord(JUMP_ABSOLUTE), JumpRegWord(JUMP_RELATIVE) }
        Uses == { RegMemWord(STORE, 0), JumpRegWord(JUMP_ABSOLUTE),
                  JumpRegWord(JUMP_RELATIVE) }
    IN  Images(JumpAlphabet, MaxJumpProgLen)
        \cup { ImageOf(<<RegMemWord(SET, v), RegMemWord(PUT, hi),
                        RegMemWord(PUT, hi + 1), use>>) :
                  v \in {2, 255}, hi \in {DBAR, IBAR}, use \in Uses }

\* max_cycles arguments of run_until_halt; None runs until halt
Watchdogs == {None, 12, 22}

\* an operand as written: a decimal number for kind "number" and text "",
\* the digits' value after the radix prefix text otherwise
Operand(kind, text, value) ==
    [kind |-> kind, text |-> text, negative |-> value < 0,
     value |-> IF value < 0 THEN -value ELSE value]

\* a source line: label, mnemonic, operand and whether a ";" comment follows
Line(label, instr, operand, comment) ==
    [label |-> label, instr |-> instr, operand |-> operand,
     comment |-> comment]

\* the sources given to load_program: the empty source; one-line sources
\* of every mnemonic with operands it accepts and operands at and beyond
\* the edge of its range, the macros, lower-case spellings; sources of up
\* to MaxSourceLines lines with labels before and after their references,
\* blank, comment-only and label-only lines
AsmSources ==
    LET none == Operand("none", "", 0)
        Dec(v) == Operand("number", "", v)
        Name(r) == Operand("word", r, 0)
        registers == {"R0", "R1", "R2", "R3", "R4", "R5", "R6", "R7", "ACC",
                      "DBAR", "DOFF", "IBAR", "IOFF", "STATUS"}
        branches == DOMAIN BRANCH_OPCODE_CONDITION_MAP
        InstructionLines ==
            {Line("", m, Dec(v), FALSE) :
                m \in {"SET", "ADDI"}, v \in DataBusValues \cup {-1, 256}}
            \cup {Line("", m, Dec(v), FALSE) :
                     m \in {"SUBI", "ANDI", "ORI", "XORI"},
                     v \in {0, 11, 12, 255}}
            \cup {Line("", m, Operand("number", x, 27), FALSE) :
                     m \in {"SET", "set"}, x \in {"0x", "0X", "0b"}}
            \cup {Line("", m, Name(r), FALSE) :
                     m \in {"GET", "PUT", "ADD", "SUB", "AND", "OR", "XOR"},
                     r \in registers}
            \cup {Line("", m, none, FALSE) :
                     m \in {"LOAD", "STORE", "INV", "JMP", "JMPR", "NOP",
                            "HALT", "nop", "halt"}}
            \cup {Line("", m, Dec(v), FALSE) :
                     m \in branches \cup JUMP_IMM_OPCODE_TEXTS,
                     v \in {0, 2, 4, 176, 4095, 4096, -2}}
            \cup {Line("", "addi", Dec(1), FALSE),
                  Line("", "put", Name("r1"), TRUE),
                  Line("", "PUT", Name("r1"), FALSE),
                  Line("", "jmpi", Dec(4), FALSE),
                  Line("", "bnz", Dec(4), FALSE)}
        ProgramLines ==
            { Line("loop", "ADDI", Dec(1), FALSE),
              Line("", "JMPI", Name("loop"), FALSE),
              Line("", "BNZ", Name("done"), TRUE),
              Line("done", "HALT", none, FALSE),
              Line("", "", none, FALSE),
              Line("", "", none, TRUE),
              Line("Loop", "", none, FALSE),
              Line("", "jmpi", Name("DONE"), FALSE),
              Line("", "nop", none, FALSE),
              Line("", "JMP", none, FALSE),
              Line("", "SET", Dec(1), FALSE) }
    IN  {<<>>} \cup {<<l>> : l \in InstructionLines}
        \cup SeqsUpTo(ProgramLines, MaxSourceLines)

\* the images given to load_binary: empty, whole words, a trailing odd byte
LoadImages ==
    { <<>>, <<8>>, ImageOf(<<HaltWord>>),
      ImageOf(<<AluImmWord(ADD, 1), HaltWord>>),
      ImageOf(<<AluImmWord(ADD, 1), RegMemWord(STORE, 0), HaltWord>>) \o <<8>> }

\* ------------------------------------------------------------------------
\* State
\* ------------------------------------------------------------------------
VARIABLES
    binary,     \* the image given to load_binary
    im,         \* instruction memory state
    dm,         \* data memory state
    rf,         \* register file state
    pc,         \* program counter state
    state,      \* SimulatorState: cycle_count, halted, stalled
    run,        \* the run_until_halt call: mode, max_cycles, cycles_run, ...
    obs,        \* history: what the last loop iteration did
    alu_io,     \* a direct call of ALU.execute: operands, function, outputs
    asm,        \* the host's calls: the source given to load_program and
                \* what assemble made of it, load_binary and reset
    bus_io,     \* a direct use of BusValue arithmetic: operands and result
    mem_io,     \* direct calls on one memory module: the last call, its
                \* answer, and the ticks since its countdown started
    pc_io       \* direct calls on the program counter: the last call

vars == <<binary, im, dm, rf, pc, state, run, obs, alu_io, asm, bus_io, mem_io, pc_io>>

Machine ==
    [im |-> im, dm |-> dm, rf |-> rf, pc |-> pc, state |-> state,
     error |-> "none"]

RunIdle ==
    [mode |-> "idle", max_cycles |-> None, cycles_run |-> 0, calls |-> 0,
     start_count |-> 0, error |-> "none", timeout_cycle_count |-> None]

ObsNone ==
    [outcome |-> "none", inst |-> None, address |-> None, executed |-> 0,
     stored |-> EmptyMemory]

AluIdle ==
    [called |-> FALSE, operand_a |-> 0, operand_b |-> 0, function |-> ADD,
     outputs |-> ALUOutputs(0, FALSE, FALSE, "none")]

\* no memory module called directly yet
MemIdle ==
    [target |-> "none", op |-> "none", address |-> None, data |-> None,
     error |-> "none", complete |-> FALSE, ticks |-> 0, requests |-> 0]

\* no bus values combined yet
BusIdle ==
    [called |-> FALSE, op |-> "none", width |-> DATA_WIDTH, a |-> 0, b |-> 0,
     result |-> [error |-> "none", value |-> 0]]

\* no host call made yet: nothing assembled, loaded or reset
PcIdle == [op |-> "none", error |-> "none", calls |-> 0]

AsmIdle ==
    [source |-> <<>>, numpy_wraps |-> FALSE, called |-> FALSE,
     result |-> [error |-> "none", binary |-> <<>>, instructions |-> <<>>,
                 labels |-> [l \in {} |-> 0],
                 unresolved_instructions |-> <<>>, pass |-> 1,
                 parse_error |-> "none"],
     last_call |-> "none", loads |-> 0, resets |-> 0, replaced |-> 0,
     before |-> SimulatorState,
     loaded |-> [fresh |-> FALSE, calls |-> 0],
     ended |-> [run |-> RunIdle, state |-> SimulatorState,
                rf |-> RegisterFileState, pc |-> ProgramCounterState,
                dm |-> BaseMemoryState, binary |-> <<>>,
                loaded |-> [fresh |-> FALSE, calls |-> 0]],
     decode_call |-> [called |-> FALSE, word |-> 0, decoded |-> decode_word(0)]]

\* the state after reset() followed by load_binary(image)
InitWith(images) ==
    \E image \in images :
        /\ binary = image
        /\ im = side_load(BaseMemoryState, image)
        /\ dm = BaseMemoryState
        /\ rf = RegisterFileState
        /\ pc = ProgramCounterState
        /\ state = SimulatorState
        /\ run = RunIdle
        /\ obs = ObsNone
        /\ alu_io = AluIdle
        /\ bus_io = BusIdle
        /\ mem_io = MemIdle
        /\ pc_io = PcIdle
        /\ asm = AsmIdle

\* a new simulator and the source its host will load, under either NumPy
InitAsm ==
    \E source \in AsmSources, numpy_wraps \in BOOLEAN :
        /\ binary = <<>>
        /\ im = BaseMemoryState
        /\ dm = BaseMemoryState
        /\ rf = RegisterFileState
        /\ pc = ProgramCounterState
        /\ state = SimulatorState
        /\ run = RunIdle
        /\ obs = ObsNone
        /\ alu_io = AluIdle
        /\ bus_io = BusIdle
        /\ mem_io = MemIdle
        /\ pc_io = PcIdle
        /\ asm = [AsmIdle EXCEPT !.source = source,
                                 !.numpy_wraps = numpy_wraps]

\* ------------------------------------------------------------------------
\* Operations
\* ------------------------------------------------------------------------
\* Finished with the watchdog comparison made strict
Finished_strict(r, st) ==
    IF r.max_cycles # None /\ st.cycle_count > r.max_cycles /\ ~st.halted
    THEN [r EXCEPT !.mode = "timeout", !.error = "SimulationTimeout",
                   !.timeout_cycle_count = st.cycle_count]
    ELSE [r EXCEPT !.mode = "returned"]

\* Finished with the watchdog raising whether or not the program halted
Finished_ignores_halted(r, st) ==
    IF r.max_cycles # None /\ st.cycle_count >= r.max_cycles
    THEN [r EXCEPT !.mode = "timeout", !.error = "SimulationTimeout",
                   !.timeout_cycle_count = st.cycle_count]
    ELSE [r EXCEPT !.mode = "returned"]

\* run_until_halt's handling of the end of run(): timeout or normal return
Finished(r, st) ==
    IF r.max_cycles # None /\ st.cycle_count >= r.max_cycles /\ ~st.halted
    THEN [r EXCEPT !.mode = "timeout", !.error = "SimulationTimeout",
                   !.timeout_cycle_count = st.cycle_count]
    ELSE [r EXCEPT !.mode = "returned"]

Raised(r, kind) == [r EXCEPT !.mode = "raised", !.error = kind]

\* the word at the program counter, None when nothing is loaded there
FetchedWord(m) ==
    IF m.pc.value \in DOMAIN m.im.memory
    THEN from_bytes_little(m.im.memory[m.pc.value]) ELSE None

\* the history of executed STOREs: address -> value last stored there
RecordStoreAt(stored, a, value) ==
    [x \in (DOMAIN stored) \cup {a} |-> IF x = a THEN value ELSE stored[x]]

RecordStoreDecoded(stored, m, outcome, d) ==
    IF outcome = "executed" /\ d.memory_instruction /\ d.memory_store
    THEN RecordStoreAt(stored, get_dmar_value(m.rf), get_acc_value(m.rf))
    ELSE stored

RecordStore(stored, m, outcome) ==
    RecordStoreDecoded(stored, m, outcome, decode_word(FetchedWord(m)))

\* run_until_halt(max_cycles) is called
RunUntilHalt(max_cycles) ==
    /\ run.mode \in {"idle", "returned", "timeout"}
    /\ run.calls < MaxRuns
    /\ run' = [mode |-> "running", max_cycles |-> max_cycles, cycles_run |-> 0,
               calls |-> run.calls + 1, start_count |-> state.cycle_count,
               error |-> "none", timeout_cycle_count |-> None]
    /\ UNCHANGED <<binary, im, dm, rf, pc, state, obs, alu_io, asm, bus_io, mem_io, pc_io>>

\* the run record after one iteration of run()'s loop
CycleRun(c, broke, counted, u) ==
    IF c.outcome = "raised" THEN Raised(run, c.m.error)
    ELSE IF broke
    THEN Finished([run EXCEPT !.cycles_run = @ + 1], counted.state)
    ELSE IF u.error # "none"
    THEN Raised([run EXCEPT !.cycles_run = @ + 1], u.error)
    ELSE [run EXCEPT !.cycles_run = @ + 1]

\* the history record after one iteration of run()'s loop
CycleObs(c, broke, u) ==
    [outcome |-> IF c.outcome = "raised" THEN "raised"
                 ELSE IF c.outcome = "halted" THEN "halted"
                 ELSE IF broke THEN "stalled_after_halt"
                 ELSE IF u.error # "none" THEN "commit_raised"
                 ELSE IF c.outcome = "stalled" THEN "stalled"
                 ELSE "committed",
     inst |-> IF c.outcome = "stalled" THEN None ELSE FetchedWord(Machine),
     address |-> pc.value,
     executed |-> IF c.outcome \in {"halted", "executed"}
                  THEN obs.executed + 1 ELSE obs.executed,
     stored |-> RecordStore(obs.stored, Machine, c.outcome)]

\* the assignments of one iteration: fin is the machine the iteration leaves
CycleAssign(fin, r, o) ==
    /\ im' = fin.im
    /\ dm' = fin.dm
    /\ rf' = fin.rf
    /\ pc' = fin.pc
    /\ state' = fin.state
    /\ run' = r
    /\ obs' = o

\* CycleCommit with _update_module_states left out of a stalled iteration
CycleCommit_skips_stalled(c, counted, u) ==
    CycleAssign(IF c.outcome = "raised" THEN c.m
                ELSE IF counted.state.halted \/ c.outcome = "stalled"
                THEN counted ELSE u,
                CycleRun(c, counted.state.halted \/ c.outcome = "stalled",
                         counted, u),
                CycleObs(c, counted.state.halted, u))

\* one iteration after _execute_cycle and the counters: break when halted,
\* else _update_module_states
CycleCommit(c, counted, u) ==
    CycleAssign(IF c.outcome = "raised" THEN c.m
                ELSE IF counted.state.halted THEN counted ELSE u,
                CycleRun(c, counted.state.halted, counted, u),
                CycleObs(c, counted.state.halted, u))

\* one iteration after _execute_cycle: the cycle counter
CycleCount(c, counted) ==
    CycleCommit(c, counted, update_module_states(counted))

\* one iteration after _execute_cycle
CycleDone(c) == CycleCount(c, [c.m EXCEPT !.state.cycle_count = @ + 1])

\* one iteration of run()'s loop: _execute_cycle, the counters, the halted
\* check (break without a commit) and _update_module_states
Cycle ==
    /\ run.mode = "running"
    /\ ~(run.max_cycles # None /\ run.cycles_run >= run.max_cycles)
    /\ state.cycle_count < MaxCycles
    /\ CycleDone(execute_cycle(Machine))
    /\ UNCHANGED <<binary, alu_io, asm, bus_io, mem_io, pc_io>>

\* run()'s loop ends because num_cycles iterations were made
Exhausted ==
    /\ run.mode = "running"
    /\ run.max_cycles # None /\ run.cycles_run >= run.max_cycles
    /\ run' = Finished(run, state)
    /\ UNCHANGED <<binary, im, dm, rf, pc, state, obs, alu_io, asm, bus_io, mem_io, pc_io>>

\* reset() and load_binary of the same image
Reset ==
    /\ run.mode \notin {"idle", "running"}
    /\ im' = side_load(BaseMemoryState, binary)
    /\ dm' = BaseMemoryState
    /\ rf' = RegisterFileState
    /\ pc' = ProgramCounterState
    /\ state' = SimulatorState
    /\ run' = RunIdle
    /\ obs' = ObsNone
    /\ UNCHANGED <<binary, alu_io, asm, bus_io, mem_io, pc_io>>

\* Simulator.load_program(source): Assembler.assemble, then side_load of
\* the bytes; nothing is loaded when assemble raised
LoadProgram ==
    LET Loaded(result) ==
            /\ asm' = [asm EXCEPT !.called = TRUE, !.result = result,
                                  !.last_call = "load_program"]
            /\ im' = IF result.error = "none"
                     THEN side_load(im, result.binary) ELSE im
            /\ binary' = IF result.error = "none" THEN result.binary
                         ELSE binary
            /\ UNCHANGED <<dm, rf, pc, state, run, obs, alu_io, bus_io, mem_io, pc_io>>
    IN  /\ ~asm.called
        /\ Loaded(assemble(asm.source, asm.numpy_wraps))

\* DecodeUnit.decode called directly on InstructionBinary(word)
DecodeCall(word) ==
    /\ asm' = [asm EXCEPT !.decode_call =
                   [called |-> TRUE, word |-> word,
                    decoded |-> decode(to_bytes_little(word))]]
    /\ UNCHANGED <<binary, im, dm, rf, pc, state, run, obs, alu_io, bus_io, mem_io, pc_io>>

\* Simulator.load_binary(image), between runs
LoadBinary(image) ==
    /\ run.mode # "running"
    /\ asm.loads < MaxLoads
    /\ im' = side_load(im, image)
    /\ binary' = image
    /\ asm' = [asm EXCEPT !.last_call = "load_binary", !.loads = @ + 1,
                          !.replaced = Len(binary),
                          !.loaded = [fresh |-> run.mode = "idle"
                                                /\ state.cycle_count = 0,
                                      calls |-> run.calls]]
    /\ UNCHANGED <<dm, rf, pc, state, run, obs, alu_io, bus_io, mem_io, pc_io>>

\* Simulator.reset() with the instruction memory left as it was
SimulatorReset_keeps_image ==
    /\ run.mode # "running"
    /\ asm.resets < MaxResets
    /\ im' = [BaseMemoryState EXCEPT !.memory = im.memory]
    /\ dm' = BaseMemoryState
    /\ rf' = RegisterFileState
    /\ pc' = ProgramCounterState
    /\ state' = SimulatorState
    /\ run' = [RunIdle EXCEPT !.calls = run.calls]
    /\ obs' = ObsNone
    /\ binary' = <<>>
    /\ asm' = [asm EXCEPT !.last_call = "reset", !.resets = @ + 1,
                          !.before = state,
                          !.ended = [run |-> run, state |-> state, rf |-> rf,
                                     pc |-> pc, dm |-> dm,
                                     binary |-> binary,
                                     loaded |-> asm.loaded]]
    /\ UNCHANGED <<alu_io, bus_io, mem_io, pc_io>>

\* Simulator.reset(), between runs: a new SimulatorState and new modules;
\* run.calls keeps counting the runs of the whole behaviour
SimulatorReset ==
    /\ run.mode # "running"
    /\ asm.resets < MaxResets
    /\ im' = BaseMemoryState
    /\ dm' = BaseMemoryState
    /\ rf' = RegisterFileState
    /\ pc' = ProgramCounterState
    /\ state' = SimulatorState
    /\ run' = [RunIdle EXCEPT !.calls = run.calls]
    /\ obs' = ObsNone
    /\ binary' = <<>>
    /\ asm' = [asm EXCEPT !.last_call = "reset", !.resets = @ + 1,
                          !.before = state,
                          !.ended = [run |-> run, state |-> state, rf |-> rf,
                                     pc |-> pc, dm |-> dm,
                                     binary |-> binary,
                                     loaded |-> asm.loaded]]
    /\ UNCHANGED <<alu_io, bus_io, mem_io, pc_io>>

\* ALU.execute called directly on two data-bus values
ALUCall(operand_a, operand_b, function) ==
    /\ alu_io' = [called |-> TRUE, operand_a |-> operand_a,
                  operand_b |-> operand_b, function |-> function,
                  outputs |-> ALU_execute(operand_a, operand_b, function)]
    /\ UNCHANGED <<binary, im, dm, rf, pc, state, run, obs, asm, bus_io, mem_io, pc_io>>

\* Direct calls on one memory module, "im" (request_fetch, fetch_ready,
\* get_fetch_result) or "dm" (request_load / request_store, load_ready /
\* store_complete, get_load_result), and its update_state.
\* request_fetch / request_load (data None) or request_store
MemRequest(target, address, data) ==
    LET ms == IF target = "im" THEN im ELSE dm
        Requested(req) ==
            /\ im' = IF target = "im" THEN req.ms ELSE im
            /\ dm' = IF target = "dm" THEN req.ms ELSE dm
            /\ mem_io' = [mem_io EXCEPT
                   !.target = target, !.op = "request",
                   !.address = address, !.data = data,
                   !.error = req.error,
                   !.ticks = IF req.error = "none"
                                /\ ms.remaining_cycles = None
                             THEN 0 ELSE @,
                   !.requests = IF req.error = "none"
                                   /\ ms.remaining_cycles = None
                                THEN 1
                                ELSE IF req.error = "none" THEN @ + 1 ELSE @]
    IN  /\ mem_io.target \in {"none", target}
        /\ mem_io.requests < MaxRequests
        /\ target = "im" => data = None
        /\ Requested(start_operation(
               ms, IF target = "im" THEN INSTRUCTION_FETCH_LATENCY_CYCLES
                   ELSE MEMORY_LATENCY_CYCLES, address, data))
        /\ UNCHANGED <<binary, rf, pc, state, run, obs, alu_io, asm, bus_io, pc_io>>

\* fetch_ready / load_ready (operation_complete) or store_complete
MemQuery(target, query) ==
    LET ms == IF target = "im" THEN im ELSE dm
        Answered(oc) ==
            /\ im' = IF target = "im" THEN oc.ms ELSE im
            /\ dm' = IF target = "dm" THEN oc.ms ELSE dm
            /\ mem_io' = [mem_io EXCEPT
                   !.target = target, !.op = query, !.error = "none",
                   !.complete = oc.complete]
    IN  /\ mem_io.target \in {"none", target}
        /\ target = "im" => query = "operation_complete"
        /\ Answered(IF query = "store_complete" THEN store_complete(ms)
                    ELSE operation_complete(ms))
        /\ UNCHANGED <<binary, rf, pc, state, run, obs, alu_io, asm, bus_io, pc_io>>

\* get_fetch_result / get_load_result
MemRead(target) ==
    LET ms == IF target = "im" THEN im ELSE dm
        Read(res) ==
            /\ im' = IF target = "im" THEN res.ms ELSE im
            /\ dm' = IF target = "dm" THEN res.ms ELSE dm
            /\ mem_io' = [mem_io EXCEPT
                   !.target = target, !.op = "read_value",
                   !.error = res.error]
    IN  /\ mem_io.target \in {"none", target}
        /\ Read(read_value(ms))
        /\ UNCHANGED <<binary, rf, pc, state, run, obs, alu_io, asm, bus_io, pc_io>>

\* update_state: one commit tick
MemTick(target) ==
    /\ mem_io.target \in {"none", target}
    /\ mem_io.ticks < MaxTicks
    /\ im' = IF target = "im" THEN mem_update_state(im) ELSE im
    /\ dm' = IF target = "dm" THEN mem_update_state(dm) ELSE dm
    /\ mem_io' = [mem_io EXCEPT !.target = target, !.op = "update_state",
                                !.error = "none", !.ticks = @ + 1]
    /\ UNCHANGED <<binary, rf, pc, state, run, obs, alu_io, asm, bus_io, pc_io>>

\* a + b or a - b on two bus values of width w
BusCall(op, a, b, w) ==
    /\ bus_io' = [called |-> TRUE, op |-> op, width |-> w, a |-> a, b |-> b,
                  result |-> IF op = "__add__" THEN __add__(a, b, w)
                             ELSE __sub__(a, b, w)]
    /\ UNCHANGED <<binary, im, dm, rf, pc, state, run, obs, alu_io, asm,
                   mem_io, pc_io>>

\* the driver under run_until_halt(max_cycles) with and without a watchdog,
\* repeated calls and reset
Next ==
    \/ \E max_cycles \in Watchdogs : RunUntilHalt(max_cycles)
    \/ Cycle
    \/ Exhausted
    \/ Reset

\* the driver under run_until_halt() without a watchdog
NextRun ==
    \/ RunUntilHalt(None)
    \/ Cycle

NextALUCall ==
    /\ ~alu_io.called
    /\ \E a \in DataBusValues, b \in DataBusValues, f \in ArithLogicFunction :
           ALUCall(a, b, f)

\* programs for the watchdog / halt / fault behaviour of the driver
Spec ==
    InitWith(Images(
        { HaltWord,
          RegMemWord(SET, 1),
          RegMemWord(STORE, 0), RegMemWord(LOAD, 0),
          AluImmWord(ADD, 1),
          JumpRegWord(JUMP_ABSOLUTE) },
        MaxProgLen)) /\ [][Next]_vars

\* programs that move the data address and store / load
SpecMem ==
    InitWith(Images(
        { AluImmWord(ADD, 1), RegMemWord(PUT, DOFF),
          RegMemWord(STORE, 0), RegMemWord(LOAD, 0) },
        MaxMemProgLen)) /\ [][NextRun]_vars

\* programs of register-file instructions
SpecReg ==
    InitWith(Images(
        { RegMemWord(SET, 1), RegMemWord(SET, 128),
          RegMemWord(GET, R1), RegMemWord(GET, STATUS),
          RegMemWord(PUT, R1), RegMemWord(PUT, DOFF),
          RegMemWord(PUT, ACC), RegMemWord(PUT, STATUS),
          AluImmWord(ADD, 128) },
        MaxRegProgLen)) /\ [][NextRun]_vars

\* programs of conditional branches over every flag combination ADDI 0x80
\* produces
SpecBranch ==
    InitWith(Images(
        { BranchWord(c, 4) : c \in BranchCondition }
        \cup { BranchWord(NOT_ZERO, 4094),
               AluImmWord(ADD, 1), AluImmWord(ADD, 127), AluImmWord(ADD, 255) },
        MaxBranchProgLen)) /\ [][NextRun]_vars

\* programs of ALU instructions, register and immediate forms
SpecAlu ==
    InitWith(Images(
        { RegMemWord(SET, 127), RegMemWord(PUT, R1),
          AluImmWord(ADD, 1), AluRegWord(ADD, R1),
          AluRegWord(SUB, R1), AluImmWord(SUB, 1),
          AluRegWord(AND, R1), AluImmWord(OR, 128),
          AluRegWord(XOR, R1), AluRegWord(INV, 0) },
        MaxAluProgLen)) /\ [][NextRun]_vars

SpecJump == InitWith(JumpImages) /\ [][NextRun]_vars

\* programs around the flags: SUBI 128 sets carry and overflow, NOP (ADDI 0),
\* SET 255 and the other instruction classes that are not ALU instructions,
\* and a word whose opcode (3) is in no opcode family
SpecFlags ==
    InitWith(Images(
        { AluImmWord(SUB, 128), AluImmWord(ADD, 0),
          RegMemWord(SET, 255), RegMemWord(GET, R1), RegMemWord(PUT, R1),
          RegMemWord(STORE, 0), RegMemWord(LOAD, 0),
          BranchWord(CARRY_SET, 4), JumpImmWord(2), 6 },
        MaxFlagProgLen)) /\ [][NextRun]_vars

SpecALUCall == InitWith({<<>>}) /\ [][NextALUCall]_vars

\* one sum or difference of two stored bus values: every pair of data-bus
\* values, and the instruction-address values around 0, 2^8, 2^15 and 2^16
NextBus ==
    LET Stored(w, values) == {sign_extend(v, w) : v \in values}
        Pairs ==
            {<<DATA_WIDTH, a, b>> :
                a \in Stored(DATA_WIDTH, DataBusValues),
                b \in Stored(DATA_WIDTH, DataBusValues)}
            \cup {<<INSTRUCTION_ADDRESS_WIDTH, a, b>> :
                     a \in {0, 1, 2, 255, 256, 32767, 32768, 65534, 65535},
                     b \in {0, 1, 2, 255, 256, 32767, 32768, 65534, 65535}}
    IN  /\ ~bus_io.called
        /\ \E p \in Pairs :
               \/ BusCall("__add__", p[2], p[3], p[1])
               \/ BusCall("__sub__", p[2], p[3], p[1])

SpecBus == InitWith({<<>>}) /\ [][NextBus]_vars

\* a direct call on the ProgramCounter module: increment, jump_relative,
\* jump_absolute, set_stall or update_state
PcCall(op, arg) ==
    LET Called(p) ==
            /\ pc' = p.pc
            /\ pc_io' = [op |-> op, error |-> p.error,
                         calls |-> pc_io.calls + 1]
    IN  /\ pc_io.calls < MaxPcCalls
        /\ Called(CASE op = "increment" ->
                           [pc |-> increment(pc), error |-> "none"]
                    [] op = "jump_relative" ->
                           [pc |-> jump_relative(pc, arg), error |-> "none"]
                    [] op = "jump_absolute" ->
                           [pc |-> jump_absolute(pc, arg), error |-> "none"]
                    [] op = "set_stall" ->
                           [pc |-> set_stall(pc, arg), error |-> "none"]
                    [] op = "update_state" -> pc_update_state(pc))
        /\ UNCHANGED <<binary, im, dm, rf, state, run, obs, alu_io, asm, bus_io, mem_io>>

\* a caller of the program counter: targets scheduled, the stall flag set
\* and cleared, and commits, in any order
NextPc ==
    \/ PcCall("increment", None)
    \/ \E offset \in {4, (2 ^ INSTRUCTION_ADDRESS_WIDTH) - 2} :
           PcCall("jump_relative", offset)
    \/ PcCall("jump_absolute", 8)
    \/ \E stall \in BOOLEAN : PcCall("set_stall", stall)
    \/ PcCall("update_state", None)

SpecPc == InitWith({<<>>}) /\ [][NextPc]_vars

\* a caller of one memory module: requests for two addresses, stores of two
\* values, completion queries, reads and ticks in any order
NextMemory ==
    \E target \in {"im", "dm"} :
        \/ \E address \in {0, 2}, data \in {None, 1, 2} :
               MemRequest(target, address, data)
        \/ \E query \in {"operation_complete", "store_complete"} :
               MemQuery(target, query)
        \/ MemRead(target)
        \/ MemTick(target)

\* the instruction memory holds two words, the data memory is empty
SpecMemory ==
    InitWith({ImageOf(<<HaltWord, HaltWord>>)}) /\ [][NextMemory]_vars

\* a host that loads a source program and runs it; a host without a source
\* decodes one word
NextAsm ==
    \/ ~asm.decode_call.called /\ LoadProgram
    \/ /\ asm.source = <<>> /\ ~asm.called /\ ~asm.decode_call.called
       /\ \E word \in 0 .. (2 ^ INSTRUCTION_WIDTH) - 1 : DecodeCall(word)
    \/ asm.called /\ asm.result.error = "none" /\ RunUntilHalt(None)
    \/ Cycle

SpecAsm == InitAsm /\ [][NextAsm]_vars

\* a host that loads images, runs with and without a watchdog, and resets
NextLoad ==
    \/ \E image \in LoadImages : LoadBinary(image)
    \/ \E max_cycles \in Watchdogs : RunUntilHalt(max_cycles)
    \/ Cycle
    \/ Exhausted
    \/ SimulatorReset

SpecLoad == InitWith({<<>>}) /\ [][NextLoad]_vars

\* ------------------------------------------------------------------------
\* Properties
\* ------------------------------------------------------------------------
\* the state in which the next step of the run is a cycle
CycleEnabled ==
    /\ run.mode = "running"
    /\ ~(run.max_cycles # None /\ run.cycles_run >= run.max_cycles)

\* the cycle about to run completes its fetch
FetchCompletes == CycleEnabled /\ ~state.halted /\ im.remaining_cycles = 0

\* the instruction the cycle about to run decodes
Decoded == decode(im.memory[pc.value])

\* the cycle about to run fetches and decodes an instruction
Executes ==
    /\ FetchCompletes
    /\ pc.value \in DOMAIN im.memory
    /\ Decoded.error = "none"

\* run_until_halt has ended by returning or by the watchdog
RunEnded == run.mode \in {"returned", "timeout"}

C2_HaltFreezes ==
    [][ /\ (Executes /\ Decoded.halt_instruction) =>
              /\ state'.halted
              /\ run'.mode = "returned"
              /\ pc'.value = pc.value
              /\ rf'.registers = rf.registers
              /\ dm'.memory = dm.memory
        /\ (state.halted /\ run'.mode # "idle") =>
              /\ state'.halted
              /\ pc'.value = pc.value
              /\ rf'.registers = rf.registers
              /\ dm'.memory = dm.memory ]_vars

\* a halted simulator that was run again keeps the state HALT left
C2_Witness ==
    /\ state.halted
    /\ run.mode = "returned"
    /\ run.calls = 2
    /\ obs.outcome = "stalled_after_halt"
    /\ pc.value = 4
    /\ rf.registers[ACC] = 2

\* C3: from reset, a program that halts after executing k instructions (the
\* k-th being HALT) halts with cycle_count = k * (1 + 10); LOAD and STORE add
\* no cycles, the data memory never being left busy.
C3_CyclesPerInstruction ==
    /\ obs.outcome = "halted" =>
          state.cycle_count =
              obs.executed * (1 + INSTRUCTION_FETCH_LATENCY_CYCLES)
    /\ dm.remaining_cycles = None

\* STORE, LOAD and HALT executed in 33 cycles
C3_Witness ==
    /\ obs.outcome = "halted"
    /\ obs.executed = 3
    /\ state.cycle_count = 33
    /\ binary = ImageOf(<<RegMemWord(STORE, 0), RegMemWord(LOAD, 0), HaltWord>>)

\* C4: every address stored to holds the value last stored there, whatever
\* was stored to other addresses since, and a LOAD from such an address
\* commits with ACC equal to that value.
C4_StoreLoadRoundTrip ==
    /\ [](\A a \in DOMAIN obs.stored :
             a \in DOMAIN dm.memory /\ dm.memory[a] = obs.stored[a])
    /\ [][ (/\ Executes
            /\ Decoded.memory_instruction /\ Decoded.memory_load
            /\ get_dmar_value(rf) \in DOMAIN obs.stored) =>
               /\ obs'.outcome = "committed"
               /\ rf'.registers[ACC] = obs.stored[get_dmar_value(rf)] ]_vars

\* a LOAD brought back the 0 stored at address 0 after ACC had become 1
C4_Witness ==
    /\ obs.outcome = "committed"
    /\ obs.inst = RegMemWord(LOAD, 0)
    /\ binary = ImageOf(<<RegMemWord(STORE, 0), AluImmWord(ADD, 1),
                          RegMemWord(LOAD, 0)>>)
    /\ rf.registers[ACC] = 0

\* C5: a LOAD from a data address never written, and an instruction fetch
\* from an address never loaded (the PC past the end of the program), raise
\* the segmentation-fault ValueError and end the run, with no register, PC
\* or data-memory change.
C5_SegmentationFault ==
    [][ (\/ FetchCompletes /\ pc.value \notin DOMAIN im.memory
         \/ /\ Executes
            /\ Decoded.memory_instruction /\ Decoded.memory_load
            /\ get_dmar_value(rf) \notin DOMAIN dm.memory) =>
           /\ run'.mode = "raised"
           /\ run'.error = "ValueError"
           /\ rf'.registers = rf.registers
           /\ pc'.value = pc.value
           /\ dm'.memory = dm.memory ]_vars

\* a LOAD from address 1 failed though address 0 had been stored to
C5_Witness ==
    /\ run.mode = "raised"
    /\ run.error = "ValueError"
    /\ obs.inst = RegMemWord(LOAD, 0)
    /\ get_dmar_value(rf) = 1
    /\ DOMAIN dm.memory = {0}
    /\ rf.registers[ACC] = 1

\* C6: PUT ACC and PUT STATUS end the run with the register file's
\* IndexError, and no register is modified.
C6_PutProtected ==
    [][ (/\ Executes
         /\ Decoded.register_file_instruction /\ Decoded.register_file_put
         /\ Decoded.register_index \in {ACC, STATUS}) =>
           /\ run'.mode = "raised"
           /\ run'.error = "IndexError"
           /\ rf'.registers = rf.registers ]_vars

\* PUT STATUS failed with ACC = 128 and STATUS left at 0
C6_Witness ==
    /\ run.mode = "raised"
    /\ run.error = "IndexError"
    /\ obs.outcome = "commit_raised"
    /\ obs.inst = RegMemWord(PUT, STATUS)
    /\ rf.registers[ACC] = 128
    /\ rf.registers[STATUS] = 0

\* C7: a conditional branch is taken exactly when its condition holds on the
\* committed STATUS flags (ZERO: Z, NOT_ZERO: not Z, POSITIVE: P, NEGATIVE:
\* not P, CARRY_SET: C, CARRY_CLEARED: not C, OVERFLOW_SET: V,
\* OVERFLOW_CLEARED: not V); after the commit the PC is (PC + offset) mod
\* 2^16 when taken and PC + 2 otherwise.
C7_ConditionalBranch ==
    [][ (Executes /\ Decoded.branch_instruction) =>
           LET status == rf.registers[STATUS]
               Z == status % 2 = 1
               P == (status \div 2) % 2 = 1
               C == (status \div 4) % 2 = 1
               V == (status \div 8) % 2 = 1
               cond == Decoded.branch_condition
               taken == \/ cond = ZERO /\ Z
                        \/ cond = NOT_ZERO /\ ~Z
                        \/ cond = POSITIVE /\ P
                        \/ cond = NEGATIVE /\ ~P
                        \/ cond = CARRY_SET /\ C
                        \/ cond = CARRY_CLEARED /\ ~C
                        \/ cond = OVERFLOW_SET /\ V
                        \/ cond = OVERFLOW_CLEARED /\ ~V
           IN  /\ obs'.outcome = "committed"
               /\ pc'.value =
                     IF taken
                     THEN (pc.value + Decoded.immediate_address_value) % 65536
                     ELSE pc.value + 2 ]_vars

\* a BVS at address 4 was taken with V set and C clear
C7_Witness ==
    /\ obs.outcome = "committed"
    /\ obs.inst = BranchWord(OVERFLOW_SET, 4)
    /\ obs.address = 4
    /\ pc.value = 8
    /\ rf.registers[STATUS] = 8

\* C8: an ALU instruction takes operand B from the immediate when its opcode
\* is ARITH_LOGIC_IMM and from the named register otherwise; after the commit
\* ACC is the ALU result, C and V are the ALU's carry and overflow outputs,
\* Z is (result = 0) and P is (signed(result) >= 0).
C8_AluCommit ==
    [][ (Executes /\ Decoded.alu_instruction) =>
           LET word == from_bytes_little(im.memory[pc.value])
               operand == (word \div 256) % 256
               B == IF (word \div 2) % 8 = ARITH_LOGIC_IMM
                    THEN operand ELSE rf.registers[operand % 16]
               out == ALU_execute(rf.registers[ACC], B, (word \div 16) % 16)
               status == rf'.registers[STATUS]
           IN  /\ obs'.outcome = "committed"
               /\ rf'.registers[ACC] = out.result
               /\ (status % 2 = 1) <=> (out.result = 0)
               /\ ((status \div 2) % 2 = 1) <=>
                     (signed_value(out.result, DATA_WIDTH) >= 0)
               /\ ((status \div 4) % 2 = 1) <=> out.carry_flag
               /\ ((status \div 8) % 2 = 1) <=> out.signed_overflow ]_vars

\* SET 127 then ADDI 1 committed: ACC = 128, negative, overflow, no carry
C8_Witness ==
    /\ obs.outcome = "committed"
    /\ obs.inst = AluImmWord(ADD, 1)
    /\ rf.registers[ACC] = 128
    /\ rf.registers[STATUS] = 8

\* C9: after the commit SET imm leaves ACC = imm, GET r leaves ACC = r
\* (r = STATUS included), PUT r (r not ACC or STATUS) leaves r = ACC; no
\* other register changes, Z and P follow the new ACC, C and V keep their
\* values, the PC advances by 2 and the data memory is unchanged.
C9_RegisterOperations ==
    [][ (/\ Executes
         /\ Decoded.register_file_instruction
         /\ \/ Decoded.register_file_set
            \/ Decoded.register_file_get
            \/ /\ Decoded.register_file_put
               /\ Decoded.register_index \notin {ACC, STATUS}) =>
           LET d == Decoded
               r == d.register_index
               acc == rf.registers[ACC]
               new_acc == IF d.register_file_set THEN d.immediate_data_value
                          ELSE IF d.register_file_get THEN rf.registers[r]
                          ELSE acc
               status == rf'.registers[STATUS]
           IN  /\ obs'.outcome = "committed"
               /\ rf'.registers[ACC] = new_acc
               /\ d.register_file_put => rf'.registers[r] = acc
               /\ \A q \in RegisterIndex \ {ACC, STATUS} :
                     ~(d.register_file_put /\ q = r) =>
                         rf'.registers[q] = rf.registers[q]
               /\ (status % 2 = 1) <=> (new_acc = 0)
               /\ ((status \div 2) % 2 = 1) <=> (new_acc < 128)
               /\ status \div 4 = rf.registers[STATUS] \div 4
               /\ d.register_file_put => status = rf.registers[STATUS]
               /\ pc'.value = pc.value + 2
               /\ dm'.memory = dm.memory ]_vars

\* GET STATUS committed after ADDI 128: ACC holds the old STATUS value 0
C9_Witness ==
    /\ obs.outcome = "committed"
    /\ obs.inst = RegMemWord(GET, STATUS)
    /\ binary = ImageOf(<<AluImmWord(ADD, 128), RegMemWord(GET, STATUS)>>)
    /\ rf.registers[ACC] = 0
    /\ rf.registers[STATUS] = 3

\* C10: ADD sets the carry flag exactly when unsigned(A) + unsigned(B)
\* exceeds 255 (0xFE + 1 leaves it clear, 0xFF + 1 sets it).
C10_AddCarry ==
    (alu_io.called /\ alu_io.function = ADD) =>
        (alu_io.outputs.carry_flag <=>
            alu_io.operand_a + alu_io.operand_b > 255)

\* C11: SUB sets carry exactly when unsigned(A) < unsigned(B); ADD and SUB
\* set signed overflow exactly when the exact signed result lies outside
\* [-128, 127]; ADD of MAX_SIGNED and 1 gives MIN_SIGNED with overflow set
\* and carry clear.
C11_SubCarryAndOverflow ==
    alu_io.called =>
        LET a == alu_io.operand_a
            b == alu_io.operand_b
            sa == IF a >= 128 THEN a - 256 ELSE a
            sb == IF b >= 128 THEN b - 256 ELSE b
            out == alu_io.outputs
        IN  /\ alu_io.function = SUB =>
                  /\ out.carry_flag <=> a < b
                  /\ out.signed_overflow <=> (sa - sb) \notin -128 .. 127
            /\ alu_io.function = ADD =>
                  /\ out.signed_overflow <=> (sa + sb) \notin -128 .. 127
                  /\ (a = 127 /\ b = 1) =>
                        out.result = 128 /\ ~out.carry_flag

\* SUB of 0x80 from 0x01: borrow and signed overflow together
C11_Witness ==
    /\ alu_io.called
    /\ alu_io.function = SUB
    /\ alu_io.operand_a = 1
    /\ alu_io.operand_b = 128
    /\ alu_io.outputs.result = 129
    /\ alu_io.outputs.carry_flag
    /\ alu_io.outputs.signed_overflow

\* C12: encode/decode round trip.  Every instruction of a source the
\* assembler accepts decodes, from the word emitted for it, without an
\* error and to the same fields: class, function or condition, register
\* index, data immediate, address immediate.
C12_EncodeDecodeRoundTrip ==
    (asm.called /\ asm.result.error = "none") =>
        \A i \in 1 .. Len(asm.result.instructions) :
            LET instr == asm.result.instructions[i]
                d == decode(SubSeq(asm.result.binary, 2 * i - 1, 2 * i))
            IN  /\ d.error = "none"
                /\ d.branch_instruction = instr.conditional_branch
                /\ instr.conditional_branch =>
                      /\ d.branch_condition = instr.branch_conditon
                      /\ d.immediate_address_value = instr.address_immediate
                /\ (~instr.conditional_branch
                    /\ instr.opcode \in {ARITH_LOGIC_IMM, ARITH_LOGIC}) =>
                      /\ d.alu_instruction
                      /\ d.alu_immediate_instruction
                             = (instr.opcode = ARITH_LOGIC_IMM)
                      /\ d.alu_function = instr.function
                      /\ instr.opcode = ARITH_LOGIC_IMM =>
                             d.immediate_data_value = instr.data_immediate
                      /\ (instr.opcode = ARITH_LOGIC /\ instr.function # INV)
                             => d.register_index = instr.register
                /\ (~instr.conditional_branch /\ instr.opcode = REG_MEMORY) =>
                      /\ d.memory_instruction
                             = (instr.function \in {LOAD, STORE})
                      /\ d.register_file_instruction
                             = (instr.function \in {GET, PUT, SET})
                      /\ d.memory_load = (instr.function = LOAD)
                      /\ d.memory_store = (instr.function = STORE)
                      /\ d.register_file_get = (instr.function = GET)
                      /\ d.register_file_put = (instr.function = PUT)
                      /\ d.register_file_set = (instr.function = SET)
                      /\ instr.function \in {GET, PUT} =>
                             d.register_index = instr.register
                      /\ instr.function = SET =>
                             d.immediate_data_value = instr.data_immediate
                /\ (~instr.conditional_branch /\ instr.opcode = JUMP_IMM) =>
                      /\ d.jump_instruction /\ d.immediate_jump
                      /\ d.immediate_address_value = instr.address_immediate
                /\ (~instr.conditional_branch /\ instr.opcode = JUMP_REG) =>
                      /\ d.jump_instruction /\ ~d.immediate_jump
                      /\ d.relative_jump = (instr.function = JUMP_RELATIVE)

\* C13: a source whose branches and JMPIs name labels defined before or
\* after them, or give a negative offset, assembles; when such a JMPI or a
\* taken branch executes, the PC becomes the label's address (PC + offset
\* for a literal offset), with no adjustment by the instruction width.
C13_LabelJumps ==
    /\ [](LET none == Operand("none", "", 0)
              plain == { Line("loop", "ADDI", Operand("number", "", 1), FALSE),
                         Line("", "JMPI", Operand("word", "loop", 0), FALSE),
                         Line("", "BNZ", Operand("word", "done", 0), TRUE),
                         Line("done", "HALT", none, FALSE),
                         Line("", "", none, FALSE),
                         Line("", "", none, TRUE),
                         Line("", "SET", Operand("number", "", 1), FALSE) }
              Defined(name) ==
                  \E j \in 1 .. Len(asm.source) : asm.source[j].label = name
              LabelSource ==
                  \A i \in 1 .. Len(asm.source) :
                      /\ asm.source[i] \in plain
                      /\ asm.source[i].operand.kind = "word" =>
                             Defined(asm.source[i].operand.text)
              OffsetSource ==
                  /\ Len(asm.source) = 1
                  /\ asm.source[1].instr \in
                         DOMAIN BRANCH_OPCODE_CONDITION_MAP
                         \cup JUMP_IMM_OPCODE_TEXTS
                  /\ asm.source[1].operand = Operand("number", "", -2)
          IN  (asm.called /\ (LabelSource \/ OffsetSource))
                  => asm.result.error = "none")
    /\ [][ (asm.called /\ asm.result.error = "none" /\ Executes) =>
             LET status == rf.registers[STATUS]
                 Taken(instr) ==
                     \/ ~instr.conditional_branch
                     \/ instr.branch_conditon = ZERO /\ Bit(status, 0) = 1
                     \/ instr.branch_conditon = NOT_ZERO /\ Bit(status, 0) = 0
                     \/ instr.branch_conditon = POSITIVE /\ Bit(status, 1) = 1
                     \/ instr.branch_conditon = NEGATIVE /\ Bit(status, 1) = 0
                     \/ instr.branch_conditon = CARRY_SET /\ Bit(status, 2) = 1
                     \/ instr.branch_conditon = CARRY_CLEARED
                        /\ Bit(status, 2) = 0
                     \/ instr.branch_conditon = OVERFLOW_SET
                        /\ Bit(status, 3) = 1
                     \/ instr.branch_conditon = OVERFLOW_CLEARED
                        /\ Bit(status, 3) = 0
             IN  /\ \A k \in 1 .. Len(asm.result.unresolved_instructions) :
                        LET ref == asm.result.unresolved_instructions[k]
                        IN  (ref.address = pc.value
                             /\ Taken(asm.result.instructions[ref.instruction]))
                                => pc'.value = asm.result.labels[ref.label_ref]
                 /\ (Len(asm.source) = 1
                     /\ asm.source[1].operand = Operand("number", "", -2)
                     /\ Taken(asm.result.instructions[1]))
                        => pc'.value = (pc.value - 2) % 65536 ]_vars

\* C14: when the first pass has accepted every line, the second pass gives
\* each deferred branch / JMPI the address immediate (address of its label)
\* - (address of the instruction), for a label before or after it; a
\* reference to a label defined nowhere is fatal and no image is produced.
C14_SecondPassOffsets ==
    (asm.called /\ asm.result.pass = 2) =>
        LET refs == asm.result.unresolved_instructions
            labels == asm.result.labels
            Target(k) == labels[refs[k].label_ref]
            Immediate(k) ==
                asm.result.instructions[refs[k].instruction].address_immediate
        IN  IF \E k \in 1 .. Len(refs) : refs[k].label_ref \notin DOMAIN labels
            THEN asm.result.error # "none" /\ asm.result.binary = <<>>
                 /\ im.memory = EmptyMemory
            ELSE /\ asm.result.parse_error = "none"
                 /\ \A k \in 1 .. Len(refs) :
                        /\ Immediate(k) # None
                        /\ signed_value(Immediate(k), INSTRUCTION_ADDRESS_WIDTH)
                               = Target(k) - refs[k].address

\* C15: the image of an assembled source has exactly two bytes, low byte
\* first, for each instruction line, in source order; blank, comment-only
\* and label-only lines add nothing; a label's address is twice the number
\* of instruction lines before the line that defines it.
C15_TwoBytesPerInstructionLine ==
    (asm.called /\ asm.result.error = "none") =>
        LET source == asm.source
            InstructionLinesBefore(j) ==
                Cardinality({i \in 1 .. j - 1 : source[i].instr # ""})
            Bytes(j) ==
                SubSeq(asm.result.binary, 2 * InstructionLinesBefore(j) + 1,
                       2 * InstructionLinesBefore(j) + 2)
            LowHigh(word) == <<word % 256, word \div 256>>
            LastDefinition(j) ==
                \A i \in j + 1 .. Len(source) :
                    source[i].label = ""
                    \/ upper(source[i].label) # upper(source[j].label)
        IN  /\ Len(asm.result.binary)
                   = 2 * InstructionLinesBefore(Len(source) + 1)
            /\ \A j \in 1 .. Len(source) :
                   /\ (source[j].instr = "ADDI"
                       /\ source[j].operand = Operand("number", "", 1))
                          => Bytes(j) = LowHigh(AluImmWord(ADD, 1))
                   /\ (source[j].instr = "SET"
                       /\ source[j].operand = Operand("number", "", 1))
                          => Bytes(j) = LowHigh(RegMemWord(SET, 1))
                   /\ source[j].instr = "HALT" => Bytes(j) = LowHigh(HaltWord)
                   /\ (source[j].instr = "BNZ"
                       /\ source[j].operand.kind = "word")
                          => \E offset \in 0 .. 2 * Len(source) :
                                 Bytes(j) = LowHigh(BranchWord(NOT_ZERO, offset))
                   /\ (source[j].label # "" /\ LastDefinition(j))
                          => /\ upper(source[j].label) \in DOMAIN asm.result.labels
                             /\ asm.result.labels[upper(source[j].label)]
                                    = 2 * InstructionLinesBefore(j)
            /\ DOMAIN asm.result.labels
                   = {upper(source[j].label) :
                          j \in {i \in 1 .. Len(source) : source[i].label # ""}}

\* a label-only line between two instructions
C15_Witness ==
    /\ asm.called
    /\ asm.result.error = "none"
    /\ asm.source = << Line("loop", "ADDI", Operand("number", "", 1), FALSE),
                       Line("Loop", "", Operand("none", "", 0), FALSE),
                       Line("done", "HALT", Operand("none", "", 0), FALSE) >>
    /\ asm.result.binary = <<0, 1, 8, 0>>
    /\ asm.result.labels["LOOP"] = 2
    /\ asm.result.labels["DONE"] = 2

\* C16: JMP and JMPR, written without an operand, assemble to the JUMP_REG
\* word with function JUMP_ABSOLUTE and JUMP_RELATIVE.
C16_RegisterJumps ==
    \A m \in {"JMP", "JMPR"} :
        (asm.called
         /\ asm.source = <<Line("", m, Operand("none", "", 0), FALSE)>>) =>
            /\ asm.result.error = "none"
            /\ from_bytes_little(asm.result.binary)
                   = JumpRegWord(IF m = "JMP" THEN JUMP_ABSOLUTE
                                 ELSE JUMP_RELATIVE)

\* C17: a source whose upper-case form assembles assembles itself, to the
\* same bytes: mnemonics, the macros NOP and HALT, register names and
\* labels are taken in any case.
C17_CaseInsensitive ==
    asm.called =>
        LET UpperCase(line) ==
                [line EXCEPT !.label = upper(@), !.instr = upper(@),
                             !.operand.text = upper(@)]
            upper_result ==
                assemble([i \in 1 .. Len(asm.source) |->
                             UpperCase(asm.source[i])], asm.numpy_wraps)
        IN  upper_result.error = "none" =>
                /\ asm.result.error = "none"
                /\ asm.result.binary = upper_result.binary

\* C18: decode flags a 16-bit word as halt exactly when its branch bit is
\* 0, its opcode JUMP_IMM and its address immediate 0; HALT and JMPI 0
\* assemble to that word, bytes 08 00; an assembled instruction whose word
\* is flagged as halt is a HALT or a JMPI with address immediate 0.
C18_HaltWord ==
    /\ asm.decode_call.called =>
           LET word == asm.decode_call.word
               d == asm.decode_call.decoded
           IN  (d.error = "none" /\ d.halt_instruction)
                   <=> /\ word % 2 = 0
                       /\ (word \div 2) % 8 = JUMP_IMM
                       /\ (word \div 16) % 4096 = 0
    /\ (asm.called
        /\ asm.source \in
               { <<Line("", "HALT", Operand("none", "", 0), FALSE)>>,
                 <<Line("", "JMPI", Operand("number", "", 0), FALSE)>> })
           => asm.result.error = "none" /\ asm.result.binary = <<8, 0>>
    /\ (asm.called /\ asm.result.error = "none") =>
           \A i \in 1 .. Len(asm.result.instructions) :
               LET d == decode(SubSeq(asm.result.binary, 2 * i - 1, 2 * i))
                   j == CHOOSE j \in 1 .. Len(asm.source) :
                            /\ asm.source[j].instr # ""
                            /\ Cardinality({x \in 1 .. j - 1 :
                                   asm.source[x].instr # ""}) = i - 1
               IN  (d.error = "none" /\ d.halt_instruction) =>
                       /\ upper(asm.source[j].instr) \in {"HALT", "JMPI"}
                       /\ asm.result.instructions[i].address_immediate = 0

\* the word 0x0008 was decoded and flagged as halt
C18_Witness ==
    /\ asm.decode_call.called
    /\ asm.decode_call.word = HaltWord
    /\ asm.decode_call.decoded.error = "none"
    /\ asm.decode_call.decoded.halt_instruction

\* ------------------------------------------------------------------------
\* C19: after load_binary(bytes) the instruction memory holds exactly
\* floor(len(bytes) / 2) words, word i at address 2 * i made of bytes 2 * i
\* and 2 * i + 1 of the image; no address of an image loaded before is left
\* and a trailing odd byte is in no word.  The runs that follow read the
\* memory and leave its contents alone.
\* ------------------------------------------------------------------------
C19_LoadBinaryReplaces ==
    asm.last_call = "load_binary" =>
        LET words == Len(binary) \div 2
        IN  /\ DOMAIN im.memory = {2 * i : i \in 0 .. words - 1}
            /\ Cardinality(DOMAIN im.memory) = words
            /\ \A i \in 0 .. words - 1 :
                   im.memory[2 * i] = <<binary[2 * i + 1], binary[2 * i + 2]>>

\* a one-byte image loaded over a three-word image with a trailing byte:
\* the memory is empty
C19_Witness ==
    /\ asm.last_call = "load_binary"
    /\ asm.loads = 2
    /\ asm.replaced = 7
    /\ binary = <<8>>
    /\ im.memory = EmptyMemory

\* ------------------------------------------------------------------------
\* C20: reset() after any loads and runs leaves the initial state:
\* cycle_count 0, halted and stalled false, PC 0 with no next value and no
\* stall, every register 0 and STATUS at its initial value with nothing
\* pending, both memories empty with no operation outstanding.
\* ------------------------------------------------------------------------
C20_ResetRestoresInitialState ==
    [][asm'.resets = asm.resets + 1 =>
          /\ state'.cycle_count = 0
          /\ ~state'.halted /\ ~state'.stalled
          /\ pc' = [value |-> 0, next_value |-> None, stall |-> FALSE]
          /\ \A r \in RegisterIndex \ {STATUS} : rf'.registers[r] = 0
          /\ rf'.registers[STATUS] = RegisterFileState.registers[STATUS]
          /\ rf'.pending_register = None /\ rf'.pending_value = None
          /\ rf'.pending_carry_flag = None
          /\ rf'.pending_signed_overflow = None
          /\ rf'.pending_accumulator = None
          /\ \A ms \in {im', dm'} :
                 /\ ms.memory = EmptyMemory
                 /\ ms.pending_address = None /\ ms.pending_data = None
                 /\ ms.remaining_cycles = None]_vars

\* reset after a run that the watchdog stopped in the middle of a fetch
C20_Witness ==
    /\ asm.last_call = "reset"
    /\ asm.before.cycle_count > 0
    /\ asm.before.stalled
    /\ asm.loads > 0
    /\ state = SimulatorState
    /\ im = BaseMemoryState
    /\ pc = ProgramCounterState

\* ------------------------------------------------------------------------
\* C21: watchdog widening.  Two runs of the same image from the state after
\* reset, one run_until_halt(None) that halts after at most N cycles and one
\* run_until_halt(N): the watched run returns too, with the same cycle
\* count, halted flag, registers, PC and data memory.  The first of the two
\* runs is the one the reset() between them ended; each is the first run
\* after a load_binary made on the state reset() leaves.
\* ------------------------------------------------------------------------
C21_WatchdogWidening ==
    \A first \in {TRUE, FALSE} :
        LET here == [run |-> run, state |-> state, rf |-> rf, pc |-> pc,
                     dm |-> dm, binary |-> binary, loaded |-> asm.loaded]
            free == IF first THEN asm.ended ELSE here
            watched == IF first THEN here ELSE asm.ended
        IN  ( /\ asm.resets > 0
              /\ run.mode \in {"returned", "timeout", "raised"}
              /\ \A r \in {free, watched} :
                     /\ r.loaded.fresh
                     /\ r.run.calls = r.loaded.calls + 1
                     /\ r.run.start_count = 0
              /\ asm.ended.binary = binary
              /\ free.run.max_cycles = None
              /\ watched.run.max_cycles # None
              /\ free.run.mode = "returned" /\ free.state.halted
              /\ free.state.cycle_count <= watched.run.max_cycles )
            => /\ watched.run.mode = "returned"
               /\ watched.state = free.state
               /\ watched.rf.registers = free.rf.registers
               /\ watched.pc.value = free.pc.value
               /\ watched.dm.memory = free.dm.memory

\* ADDI 1; HALT halts in its 22nd cycle: run_until_halt(22), reset, the same
\* image, run_until_halt(None)
C21_Witness ==
    /\ asm.resets = 1
    /\ asm.ended.run.max_cycles = 22
    /\ asm.ended.run.mode = "returned"
    /\ asm.ended.loaded.fresh /\ asm.ended.run.calls = 1
    /\ asm.ended.state.cycle_count = 22
    /\ asm.ended.binary = binary
    /\ Len(binary) = 4
    /\ asm.loaded = [fresh |-> TRUE, calls |-> 1]
    /\ run.max_cycles = None /\ run.mode = "returned" /\ run.calls = 2
    /\ state.halted /\ state.cycle_count = 22
    /\ rf.registers[ACC] = 1

\* ------------------------------------------------------------------------
\* C22: for bus values a and b of width W, a + b and a - b raise nothing,
\* (a + b).unsigned_value() = (a.unsigned_value() + b.unsigned_value())
\* mod 2^W and (a - b).unsigned_value() = (a.unsigned_value() -
\* b.unsigned_value()) mod 2^W, both within 0 .. 2^W - 1; the stored result
\* is a 16-bit value and agrees with BusAdd / BusSub.
\* ------------------------------------------------------------------------
C22_BusWrapAround ==
    bus_io.called =>
        LET w == bus_io.width
            ua == unsigned_value(bus_io.a, w)
            ub == unsigned_value(bus_io.b, w)
            r == unsigned_value(bus_io.result.value, w)
        IN  /\ bus_io.result.error = "none"
            /\ bus_io.result.value \in 0 .. (2 ^ 16) - 1
            /\ r \in 0 .. (2 ^ w) - 1
            /\ bus_io.op = "__add__" =>
                   r = (ua + ub) % (2 ^ w) /\ r = BusAdd(ua, ub, w)
            /\ bus_io.op = "__sub__" =>
                   r = (ua - ub) % (2 ^ w) /\ r = BusSub(ua, ub, w)

\* 0xFF + 0x02 on the data bus wraps to 0x01, stored without sign extension
C22_Witness ==
    /\ bus_io.called
    /\ bus_io.op = "__add__"
    /\ bus_io.width = DATA_WIDTH
    /\ unsigned_value(bus_io.a, DATA_WIDTH) = 255
    /\ unsigned_value(bus_io.b, DATA_WIDTH) = 2
    /\ bus_io.result = [error |-> "none", value |-> 1]

\* ------------------------------------------------------------------------
\* C23: DMAR read from the register file is always DBAR * 2^8 + DOFF and
\* IMAR is IBAR * 2^8 + IOFF, from the committed registers; a committed
\* PUT to one half sets that byte of the wide value to ACC and leaves the
\* other byte and the other wide register as they were; a STORE writes ACC
\* at the DMAR the committed halves give.
\* ------------------------------------------------------------------------
C23_WideAddressRegisters ==
    /\ [](/\ get_dmar_value(rf) =
                 (rf.registers[DBAR] * 256) + rf.registers[DOFF]
          /\ get_imar_value(rf) =
                 (rf.registers[IBAR] * 256) + rf.registers[IOFF])
    /\ [][ (/\ Executes
            /\ Decoded.register_file_instruction
            /\ Decoded.register_file_put
            /\ Decoded.register_index \in {DBAR, DOFF, IBAR, IOFF}) =>
              LET r == Decoded.register_index
                  acc == rf.registers[ACC]
                  dmar == get_dmar_value(rf)
                  imar == get_imar_value(rf)
                  dmar_next == get_dmar_value(rf')
                  imar_next == get_imar_value(rf')
                  high(x) == x \div 256
                  low(x) == x % 256
              IN  /\ obs'.outcome = "committed"
                  /\ r = DBAR => /\ high(dmar_next) = acc
                                 /\ low(dmar_next) = low(dmar)
                                 /\ imar_next = imar
                  /\ r = DOFF => /\ low(dmar_next) = acc
                                 /\ high(dmar_next) = high(dmar)
                                 /\ imar_next = imar
                  /\ r = IBAR => /\ high(imar_next) = acc
                                 /\ low(imar_next) = low(imar)
                                 /\ dmar_next = dmar
                  /\ r = IOFF => /\ low(imar_next) = acc
                                 /\ high(imar_next) = high(imar)
                                 /\ dmar_next = dmar ]_vars
    /\ [][ (/\ Executes
            /\ Decoded.memory_instruction
            /\ Decoded.memory_store) =>
              LET address == (rf.registers[DBAR] * 256) + rf.registers[DOFF]
              IN  /\ obs'.outcome = "committed"
                  /\ DOMAIN dm'.memory = (DOMAIN dm.memory) \cup {address}
                  /\ dm'.memory[address] = rf.registers[ACC]
                  /\ \A a \in (DOMAIN dm.memory) \ {address} :
                         dm'.memory[a] = dm.memory[a] ]_vars

\* SET 255; PUT DBAR; PUT DOFF; STORE has stored 255 at 0xFFFF
C23_Witness ==
    /\ obs.outcome = "committed"
    /\ obs.inst = RegMemWord(STORE, 0)
    /\ rf.registers[DBAR] = 255 /\ rf.registers[DOFF] = 255
    /\ get_dmar_value(rf) = 65535
    /\ 65535 \in DOMAIN dm.memory
    /\ dm.memory[65535] = 255

\* ------------------------------------------------------------------------
\* C24: a committed JUMP_IMM (other than HALT) leaves PC = (old PC +
\* address immediate) mod 2^16, a relative JUMP_REG PC = (old PC + IMAR)
\* mod 2^16, an absolute JUMP_REG PC = IMAR, and a committed instruction
\* that is neither a branch nor a jump PC = old PC + 2.
\* ------------------------------------------------------------------------
C24_JumpTargets ==
    [][ (Executes /\ ~Decoded.branch_instruction
                  /\ ~Decoded.halt_instruction) =>
           LET d == Decoded
               imar == (rf.registers[IBAR] * 256) + rf.registers[IOFF]
           IN  IF d.jump_instruction
               THEN /\ obs'.outcome = "committed"
                    /\ pc'.value =
                           IF d.immediate_jump
                           THEN (pc.value + d.immediate_address_value)
                                    % 65536
                           ELSE IF d.relative_jump
                           THEN (pc.value + imar) % 65536
                           ELSE imar
               ELSE obs'.outcome = "committed" =>
                        pc'.value = pc.value + 2 ]_vars

\* SET 255; PUT IBAR; PUT IOFF; JMPR at address 6: 6 + 0xFFFF wraps to 5
C24_Witness ==
    /\ obs.outcome = "committed"
    /\ obs.inst = JumpRegWord(JUMP_RELATIVE)
    /\ obs.address = 6
    /\ get_imar_value(rf) = 65535
    /\ pc.value = 5

\* ------------------------------------------------------------------------
\* C25: a memory module holds one outstanding operation, the one last
\* accepted; while one is outstanding, a request for another address, and a
\* store of another value to the address of an outstanding store, raise
\* ValueError and leave the module (the outstanding address and data, the
\* countdown, the contents) as it was.
\* ------------------------------------------------------------------------
C25_OneOutstandingOperation ==
    /\ [](LET ms == IF mem_io.target = "im" THEN im ELSE dm
          IN  /\ ms.pending_data # None => ms.pending_address # None
              /\ (mem_io.op = "request" /\ mem_io.error = "none") =>
                     /\ ms.pending_address = mem_io.address
                     /\ ms.pending_data = mem_io.data)
    /\ [][ mem_io'.op = "request" =>
              LET ms == IF mem_io'.target = "im" THEN im ELSE dm
                  ms_next == IF mem_io'.target = "im" THEN im' ELSE dm'
                  address == mem_io'.address
                  data == mem_io'.data
              IN  ( /\ ms.pending_address # None
                    /\ \/ address # ms.pending_address
                       \/ /\ data # None /\ ms.pending_data # None
                          /\ data # ms.pending_data )
                  => /\ mem_io'.error = "ValueError"
                     /\ ms_next = ms ]_vars

\* a fetch of address 2 requested three ticks into the fetch of address 0
C25_Witness ==
    /\ mem_io.target = "im"
    /\ mem_io.op = "request"
    /\ mem_io.address = 2
    /\ mem_io.error = "ValueError"
    /\ mem_io.ticks = 3
    /\ im.pending_address = 0
    /\ im.remaining_cycles = INSTRUCTION_FETCH_LATENCY_CYCLES - 3

\* ------------------------------------------------------------------------
\* C26: a request on a memory with no countdown running starts one of L
\* ticks; the completion query answers true exactly when the countdown is
\* running and at least L ticks have passed since it started, and a true
\* answer clears the countdown; an accepted request made while the
\* countdown runs leaves it as it is, and a tick takes one off it.
\* ------------------------------------------------------------------------
C26_MemoryHandshake ==
    [][ LET target == mem_io'.target
            ms == IF target = "im" THEN im ELSE dm
            ms_next == IF target = "im" THEN im' ELSE dm'
            L == IF target = "im" THEN INSTRUCTION_FETCH_LATENCY_CYCLES
                 ELSE MEMORY_LATENCY_CYCLES
        IN  /\ mem_io'.op \in {"operation_complete", "store_complete"} =>
                /\ mem_io'.complete <=>
                       (ms.remaining_cycles # None /\ mem_io.ticks >= L)
                /\ ms_next.remaining_cycles =
                       IF mem_io'.complete THEN None
                       ELSE ms.remaining_cycles
            /\ (mem_io'.op = "request" /\ mem_io'.error = "none") =>
                   ms_next.remaining_cycles =
                       IF ms.remaining_cycles = None THEN L
                       ELSE ms.remaining_cycles
            /\ mem_io'.op = "update_state" =>
                   ms_next.remaining_cycles =
                       IF ms.remaining_cycles \in {None, 0}
                       THEN ms.remaining_cycles
                       ELSE ms.remaining_cycles - 1 ]_vars

\* the fetch requested twice answers ready after its tenth tick
C26_Witness ==
    /\ mem_io.target = "im"
    /\ mem_io.op = "operation_complete"
    /\ mem_io.complete
    /\ mem_io.requests = 2
    /\ mem_io.ticks = INSTRUCTION_FETCH_LATENCY_CYCLES
    /\ im.pending_address = 0
    /\ im.remaining_cycles = None

\* ------------------------------------------------------------------------
\* C27: the decoded address immediate is the 12-bit field read as a signed
\* offset, sign-extended to the instruction-address width: a field with
\* bit 11 set decodes to field - 4096, and a relative jump by it from any
\* address lands 4096 - field instructions' bytes before that address.
\* ------------------------------------------------------------------------
C27_SignedAddressImmediate ==
    (asm.decode_call.called /\ asm.decode_call.decoded.error = "none") =>
        LET addr_imm_field == ShiftRight(asm.decode_call.word, 4) % 4096
            offset == asm.decode_call.decoded.immediate_address_value
        IN  /\ signed_value(offset, INSTRUCTION_ADDRESS_WIDTH) =
                   IF addr_imm_field >= 2048 THEN addr_imm_field - 4096
                   ELSE addr_imm_field
            /\ \A address \in {0, 8, 4096} :
                   BusAdd(address, offset, INSTRUCTION_ADDRESS_WIDTH) =
                       (address + (IF addr_imm_field >= 2048
                                   THEN addr_imm_field - 4096
                                   ELSE addr_imm_field)) % (2 ^ INSTRUCTION_ADDRESS_WIDTH)

\* ------------------------------------------------------------------------
\* C28 as stated: the commit of all modules runs after a cycle's stage
\* sequence exactly when the cycle neither stalled nor halted; a stalled
\* cycle leaves the fetch countdown where the fetch stage left it.
\* ------------------------------------------------------------------------
C28_NoCommitWhenStalled ==
    [][ state'.cycle_count = state.cycle_count + 1 =>
            LET fetching == IF im.remaining_cycles = None
                            THEN INSTRUCTION_FETCH_LATENCY_CYCLES
                            ELSE im.remaining_cycles
            IN  /\ (state'.halted \/ state'.stalled) =>
                       /\ im'.remaining_cycles =
                              IF state'.stalled THEN fetching ELSE None
                       /\ run'.error \in {"none", "SimulationTimeout"}
                /\ (~state'.halted /\ ~state'.stalled /\ run'.error = "none") =>
                       /\ pc'.value = execute_cycle(Machine).m.pc.next_value
                       /\ pc'.next_value = None ]_vars

\* ------------------------------------------------------------------------
\* C28 (amended): the commit of all modules runs after a cycle's stage
\* sequence exactly when the cycle did not halt; it runs in a stalled cycle
\* too, where it takes one tick off the fetch countdown. A halting cycle
\* is not committed: the countdown, the registers, the data memory and the
\* PC stay as the stage sequence left them and no commit error is raised.
\* ------------------------------------------------------------------------
C28_CommitUnlessHalted ==
    [][ state'.cycle_count = state.cycle_count + 1 =>
            LET fetching == IF im.remaining_cycles = None
                            THEN INSTRUCTION_FETCH_LATENCY_CYCLES
                            ELSE im.remaining_cycles
            IN  /\ state'.halted =>
                       /\ im'.remaining_cycles =
                              IF state'.stalled THEN fetching ELSE None
                       /\ rf' = rf /\ dm' = dm /\ pc'.value = pc.value
                       /\ run'.error \in {"none", "SimulationTimeout"}
                /\ (~state'.halted /\ state'.stalled) =>
                       /\ im'.remaining_cycles = fetching - 1
                       /\ run'.error = "none"
                /\ (~state'.halted /\ ~state'.stalled /\ run'.error = "none") =>
                       /\ pc'.value = execute_cycle(Machine).m.pc.next_value
                       /\ pc'.next_value = None ]_vars

\* the fourth stalled cycle of a fetch has been committed
C28_Witness ==
    /\ obs.outcome = "stalled"
    /\ state.stalled /\ ~state.halted
    /\ state.cycle_count = 4
    /\ im.remaining_cycles = INSTRUCTION_FETCH_LATENCY_CYCLES - 4
    /\ run.error = "none"

\* ------------------------------------------------------------------------
\* C29 as stated: the stage sequence of a cycle changes no committed
\* architectural state: the registers (ACC and STATUS among them), the PC
\* value and the data-memory contents after _execute_cycle are those before
\* it, for a STORE as for every other instruction.
\* ------------------------------------------------------------------------
C29_StagesWritePendingOnly ==
    run.mode = "running" =>
        LET c == execute_cycle(Machine)
        IN  /\ c.m.rf.registers = rf.registers
            /\ c.m.pc.value = pc.value
            /\ c.m.dm.memory = dm.memory

\* ------------------------------------------------------------------------
\* C29 (amended): the stage sequence of a cycle changes no committed
\* register (ACC and STATUS among them) and not the PC value; it changes
\* the data-memory contents only in the cycle that executes a STORE, whose
\* memory stage writes ACC at the data address before the commit; the
\* values written are the ones committed before the cycle.
\* ------------------------------------------------------------------------
C29_TwoPhaseExceptStore ==
    run.mode = "running" =>
        LET c == execute_cycle(Machine)
            store == /\ c.outcome = "executed"
                     /\ decode_word(FetchedWord(Machine)).memory_instruction
                     /\ decode_word(FetchedWord(Machine)).memory_store
        IN  /\ c.m.rf.registers = rf.registers
            /\ c.m.pc.value = pc.value
            /\ c.m.dm.memory =
                   IF store
                   THEN RecordStoreAt(dm.memory, get_dmar_value(rf),
                                      get_acc_value(rf))
                   ELSE dm.memory

\* a STORE is about to execute over a cell that holds another value: its
\* stages write the cell and leave the registers and the PC value alone
C29_Witness ==
    /\ run.mode = "running"
    /\ execute_cycle(Machine).outcome = "executed"
    /\ decode_word(FetchedWord(Machine)).memory_instruction
    /\ decode_word(FetchedWord(Machine)).memory_store
    /\ get_dmar_value(rf) \in DOMAIN dm.memory
    /\ dm.memory[get_dmar_value(rf)] # get_acc_value(rf)
    /\ execute_cycle(Machine).m.dm.memory[get_dmar_value(rf)] = get_acc_value(rf)
    /\ execute_cycle(Machine).m.pc.next_value = pc.value + 2

\* ------------------------------------------------------------------------
\* C30 as stated: every cycle that ends stalled counts (cycle_count goes up
\* by one with the stalled flag set), takes exactly one tick off the fetch
\* countdown the fetch stage left, and leaves the PC value, every register
\* (ACC and STATUS among them) and the data memory unchanged.
\* ------------------------------------------------------------------------
C30_StalledCycleCounts ==
    [][ (state'.cycle_count = state.cycle_count + 1 /\ state'.stalled) =>
            /\ run'.error \in {"none", "SimulationTimeout"}
            /\ im'.remaining_cycles =
                   (IF im.remaining_cycles = None
                    THEN INSTRUCTION_FETCH_LATENCY_CYCLES
                    ELSE im.remaining_cycles) - 1
            /\ pc'.value = pc.value
            /\ rf'.registers = rf.registers
            /\ dm'.memory = dm.memory ]_vars

\* ------------------------------------------------------------------------
\* C30, what the code does: a cycle that ends stalled counts (cycle_count
\* goes up by one with the stalled flag set) and leaves the PC value, every
\* register (ACC and STATUS among them) and the data memory unchanged; it
\* takes exactly one tick off the fetch countdown the fetch stage left,
\* unless the simulator had halted before the cycle: the run then ends
\* without a commit and the countdown stays where the fetch stage left it.
\* ------------------------------------------------------------------------
C30_StalledCycleCountsUnlessHalted ==
    [][ (state'.cycle_count = state.cycle_count + 1 /\ state'.stalled) =>
            /\ run'.error \in {"none", "SimulationTimeout"}
            /\ state'.halted = state.halted
            /\ im'.remaining_cycles =
                   (IF im.remaining_cycles = None
                    THEN INSTRUCTION_FETCH_LATENCY_CYCLES
                    ELSE im.remaining_cycles)
                   - (IF state.halted THEN 0 ELSE 1)
            /\ im'.pending_address = pc.value
            /\ pc'.value = pc.value
            /\ rf'.registers = rf.registers
            /\ dm'.memory = dm.memory ]_vars

\* the third stalled cycle of the fetch of the second instruction, after an
\* instruction that changed ACC
C30_Witness ==
    /\ obs.outcome = "stalled"
    /\ state.stalled /\ ~state.halted
    /\ state.cycle_count = INSTRUCTION_FETCH_LATENCY_CYCLES + 1 + 3
    /\ im.remaining_cycles = INSTRUCTION_FETCH_LATENCY_CYCLES - 3
    /\ pc.value = 2
    /\ rf.registers[ACC] # 0
    /\ rf.pending_accumulator # None
    /\ obs.executed = 1

\* ------------------------------------------------------------------------
\* C31: after each cycle that was committed, every pending buffer of every
\* module is empty: the register file's pending register and value, pending
\* accumulator, pending carry and pending overflow, the program counter's
\* next_value, and the pending write data of both memories.
\* ------------------------------------------------------------------------
C31_PendingBuffersEmpty ==
    obs.outcome \in {"committed", "stalled"} =>
        /\ rf.pending_register = None
        /\ rf.pending_value = None
        /\ rf.pending_accumulator = None
        /\ rf.pending_carry_flag = None
        /\ rf.pending_signed_overflow = None
        /\ pc.next_value = None
        /\ im.pending_data = None
        /\ dm.pending_data = None

\* ------------------------------------------------------------------------
\* C32: once the simulator is halted, neither memory reports an outstanding
\* operation: no pending address, no pending data, no running countdown.
\* ------------------------------------------------------------------------
C32_NoOutstandingOnceHalted ==
    state.halted =>
        /\ im.pending_address = None /\ im.pending_data = None
        /\ im.remaining_cycles = None
        /\ dm.pending_address = None /\ dm.pending_data = None
        /\ dm.remaining_cycles = None

\* C32, what the code does: the cycle that halts leaves neither memory with
\* an outstanding operation, and the memories stay so until the halted
\* simulator is run again.
C32_NoOutstandingAtHalt ==
    (state.halted /\ obs.outcome = "halted") =>
        /\ im.pending_address = None /\ im.pending_data = None
        /\ im.remaining_cycles = None
        /\ dm.pending_address = None /\ dm.pending_data = None
        /\ dm.remaining_cycles = None

\* a program that stored and loaded has halted
C32_Witness ==
    /\ state.halted
    /\ obs.outcome = "halted"
    /\ obs.executed = 3
    /\ DOMAIN dm.memory # {}
    /\ rf.pending_accumulator # None
    /\ run.mode = "returned"

\* ------------------------------------------------------------------------
\* C33: the program counter's commit, when the PC is stalled, leaves value
\* unchanged and drops next_value; when it is not stalled it moves a set
\* next_value into value and empties it, and raises ValueError (changing
\* nothing) when next_value is not set.
\* ------------------------------------------------------------------------
C33_StalledCommitDropsTarget ==
    [][ pc_io'.op = "update_state" =>
            IF pc.stall
            THEN /\ pc_io'.error = "none"
                 /\ pc'.value = pc.value
                 /\ pc'.next_value = None
                 /\ pc'.stall
            ELSE IF pc.next_value # None
            THEN /\ pc_io'.error = "none"
                 /\ pc'.value = pc.next_value
                 /\ pc'.next_value = None
                 /\ ~pc'.stall
            ELSE /\ pc_io'.error = "ValueError"
                 /\ pc' = pc ]_vars

\* C33, what the code does: the stalled commit leaves value and next_value
\* as they are; the commit that is not stalled is as C33 states it.
C33_StalledCommitKeepsTarget ==
    [][ pc_io'.op = "update_state" =>
            IF pc.stall
            THEN /\ pc_io'.error = "none"
                 /\ pc' = pc
            ELSE IF pc.next_value # None
            THEN /\ pc_io'.error = "none"
                 /\ pc'.value = pc.next_value
                 /\ pc'.next_value = None
                 /\ ~pc'.stall
            ELSE /\ pc_io'.error = "ValueError"
                 /\ pc' = pc ]_vars

\* a stalled commit has just run with a target scheduled: the target is
\* still pending
C33_Witness ==
    /\ pc_io.op = "update_state"
    /\ pc_io.error = "none"
    /\ pc.stall
    /\ pc.value = 0
    /\ pc.next_value = 8

\* ------------------------------------------------------------------------
\* C34: at the commit of a cycle the new STATUS is the old STATUS with the
\* zero and positive bits replaced exactly when the cycle scheduled a next
\* ACC (an ALU instruction, SET, GET or LOAD; the bits are those of that
\* ACC, which becomes ACC), and the carry and overflow bits replaced exactly
\* when the cycle scheduled them (an ALU instruction); the commit of a cycle
\* that scheduled nothing (a stalled cycle, PUT, STORE, a branch or a jump)
\* leaves ACC and STATUS unchanged.
\* ------------------------------------------------------------------------
C34_StatusCommitRule ==
    [][ ( /\ state'.cycle_count = state.cycle_count + 1
          /\ ~state'.halted /\ run'.error = "none" ) =>
            LET old == unsigned_value(rf.registers[STATUS], DATA_WIDTH)
                new == unsigned_value(rf'.registers[STATUS], DATA_WIDTH)
                Rule(staged, acc_scheduled, flags_scheduled) ==
                    /\ rf'.registers[ACC] =
                           IF acc_scheduled THEN staged.pending_accumulator
                           ELSE rf.registers[ACC]
                    /\ Bit(new, 0) =
                           IF acc_scheduled
                           THEN Bool2Int(unsigned_value(
                                    staged.pending_accumulator, DATA_WIDTH) = 0)
                           ELSE Bit(old, 0)
                    /\ Bit(new, 1) =
                           IF acc_scheduled
                           THEN Bool2Int(signed_value(
                                    staged.pending_accumulator, DATA_WIDTH) >= 0)
                           ELSE Bit(old, 1)
                    /\ Bit(new, 2) =
                           IF flags_scheduled THEN staged.pending_carry_flag
                           ELSE Bit(old, 2)
                    /\ Bit(new, 3) =
                           IF flags_scheduled
                           THEN staged.pending_signed_overflow
                           ELSE Bit(old, 3)
                    /\ new \div 16 = old \div 16
            IN  IF state'.stalled THEN Rule(rf, FALSE, FALSE)
                ELSE Rule(execute_cycle(Machine).m.rf,
                          \/ Decoded.alu_instruction
                          \/ /\ Decoded.register_file_instruction
                             /\ (Decoded.register_file_set
                                 \/ Decoded.register_file_get)
                          \/ /\ Decoded.memory_instruction
                             /\ Decoded.memory_load,
                          Decoded.alu_instruction) ]_vars

\* SET 127, ADDI 1 and PUT R1 have committed: ACC is 128 (negative, not
\* zero), the overflow ADDI left is still set after the PUT
C34_Witness ==
    /\ obs.outcome = "committed"
    /\ obs.inst = RegMemWord(PUT, R1)
    /\ obs.executed = 3
    /\ rf.registers[ACC] = 128
    /\ rf.registers[R1] = 128
    /\ unsigned_value(rf.registers[STATUS], DATA_WIDTH) = 8

\* ------------------------------------------------------------------------
\* C35: for every 16-bit word the decoder's register-file flag is set
\* exactly when the branch bit is 0, the opcode is REG_MEMORY and the
\* function is GET, PUT or SET; when it is set, exactly one of set / get /
\* put is; and a SET decodes without an error whatever its immediate.
\* ------------------------------------------------------------------------
C35_RegisterFileFlag ==
    asm.decode_call.called =>
        LET word == asm.decode_call.word
            d == asm.decode_call.decoded
            branch_field == word % 2
            op_field == (word \div 2) % 8
            func_field == (word \div 16) % 16
        IN  /\ d.error = "none" =>
                   /\ d.register_file_instruction <=>
                          /\ branch_field = 0
                          /\ op_field = REG_MEMORY
                          /\ func_field \in {GET, PUT, SET}
                   /\ d.register_file_instruction =>
                          Cardinality({f \in {"set", "get", "put"} :
                              \/ f = "set" /\ d.register_file_set
                              \/ f = "get" /\ d.register_file_get
                              \/ f = "put" /\ d.register_file_put}) = 1
            /\ (branch_field = 0 /\ op_field = REG_MEMORY /\ func_field = SET)
                   => d.error = "none"

\* ------------------------------------------------------------------------
\* C36: a cycle that fetches a word with branch bit 0 whose opcode is in no
\* opcode family ends the run with an error and does not advance the PC.
\* ------------------------------------------------------------------------
C36_UnknownOpcodeRaises ==
    [][ ( /\ Executes
          /\ FetchedWord(Machine) % 2 = 0
          /\ (FetchedWord(Machine) \div 2) % 8 \notin Opcode ) =>
            /\ run'.mode = "raised"
            /\ pc'.value = pc.value ]_vars

\* C36, what the code does: such a word is executed as an instruction that
\* does nothing: the cycle is committed without an error, the PC advances
\* by 2 and the registers and the data memory are left as they were.
C36_UnknownOpcodeIsSilent ==
    [][ ( /\ Executes
          /\ FetchedWord(Machine) % 2 = 0
          /\ (FetchedWord(Machine) \div 2) % 8 \notin Opcode ) =>
            /\ run'.error = "none"
            /\ obs'.outcome = "committed"
            /\ pc'.value = BusAdd(pc.value, 2, INSTRUCTION_ADDRESS_WIDTH)
            /\ rf'.registers = rf.registers
            /\ dm'.memory = dm.memory ]_vars

\* the word 0x0006 (opcode 3) at address 2 has been executed and committed
C36_Witness ==
    /\ obs.outcome = "committed"
    /\ obs.inst = 6
    /\ obs.address = 2
    /\ pc.value = 4
    /\ run.error = "none"
    /\ rf.registers[ACC] = 128

\* ------------------------------------------------------------------------
\* C37: in every state reached by running a program from reset, the zero
\* flag of STATUS is set exactly when ACC is 0 and the positive flag exactly
\* when ACC read as a signed value is not negative.
\* ------------------------------------------------------------------------
C37_ZeroPositiveFollowAcc ==
    LET status == unsigned_value(rf.registers[STATUS], DATA_WIDTH)
        acc == rf.registers[ACC]
    IN  /\ Bit(status, 0) = Bool2Int(unsigned_value(acc, DATA_WIDTH) = 0)
        /\ Bit(status, 1) = Bool2Int(signed_value(acc, DATA_WIDTH) >= 0)

\* SET 128 has committed: ACC is negative and not zero, both flags clear
C37_Witness ==
    /\ obs.outcome = "committed"
    /\ obs.inst = RegMemWord(SET, 128)
    /\ obs.executed = 2
    /\ rf.registers[ACC] = 128
    /\ unsigned_value(rf.registers[STATUS], DATA_WIDTH) % 4 = 0

\* ------------------------------------------------------------------------
\* C38: the carry and overflow bits of STATUS change only in a step that
\* commits an ALU instruction; SET, GET, PUT, LOAD, STORE, branches, jumps
\* and stalled cycles leave both as the last ALU instruction set them.
\* ------------------------------------------------------------------------
C38_CarryOverflowOnlyByAlu ==
    [][ ( \/ Bit(unsigned_value(rf'.registers[STATUS], DATA_WIDTH), 2)
               # Bit(unsigned_value(rf.registers[STATUS], DATA_WIDTH), 2)
          \/ Bit(unsigned_value(rf'.registers[STATUS], DATA_WIDTH), 3)
               # Bit(unsigned_value(rf.registers[STATUS], DATA_WIDTH), 3) ) =>
            /\ Executes
            /\ Decoded.alu_instruction
            /\ obs'.outcome = "committed" ]_vars

\* SUBI 128 set carry and overflow; STORE and LOAD have committed since and
\* both are still set
C38_Witness ==
    /\ obs.outcome = "committed"
    /\ obs.inst = RegMemWord(LOAD, 0)
    /\ obs.executed = 3
    /\ binary = ImageOf(<<AluImmWord(SUB, 128), RegMemWord(STORE, 0),
                          RegMemWord(LOAD, 0)>>)
    /\ unsigned_value(rf.registers[STATUS], DATA_WIDTH) = 12

\* ------------------------------------------------------------------------
\* C39 as stated: a committed NOP (the word of ADDI 0) leaves every
\* register, STATUS with all four flags among them, and the data memory as
\* they were, and moves the PC on by 2.
\* ------------------------------------------------------------------------
C39_NopChangesOnlyPc ==
    [][ ( /\ Executes
          /\ FetchedWord(Machine) = AluImmWord(ADD, 0)
          /\ obs'.outcome = "committed" ) =>
            /\ rf'.registers = rf.registers
            /\ dm'.memory = dm.memory
            /\ pc'.value = BusAdd(pc.value, 2, INSTRUCTION_ADDRESS_WIDTH) ]_vars

\* ------------------------------------------------------------------------
\* C39, what the code does: a committed NOP is executed as the addition
\* ACC + 0.  It leaves ACC, every register other than STATUS, the zero and
\* positive flags and the data memory as they were and moves the PC on by 2,
\* and it rewrites carry and overflow: overflow clear, carry set exactly
\* when ACC is 255.
\* ------------------------------------------------------------------------
C39_NopRewritesCarryOverflow ==
    [][ ( /\ Executes
          /\ FetchedWord(Machine) = AluImmWord(ADD, 0)
          /\ obs'.outcome = "committed" ) =>
            /\ \A r \in RegisterIndex \ {STATUS} :
                   rf'.registers[r] = rf.registers[r]
            /\ unsigned_value(rf'.registers[STATUS], DATA_WIDTH) =
                   (unsigned_value(rf.registers[STATUS], DATA_WIDTH) % 4)
                   + 4 * Bool2Int(unsigned_value(rf.registers[ACC],
                                                 DATA_WIDTH) = 255)
            /\ dm'.memory = dm.memory
            /\ pc'.value = BusAdd(pc.value, 2, INSTRUCTION_ADDRESS_WIDTH) ]_vars

\* SUBI 128 set carry and overflow and the NOP after it has committed: ACC
\* is still 128, both flags are clear
C39_Witness ==
    /\ obs.outcome = "committed"
    /\ obs.inst = AluImmWord(ADD, 0)
    /\ obs.address = 2
    /\ obs.executed = 2
    /\ rf.registers[ACC] = 128
    /\ unsigned_value(rf.registers[STATUS], DATA_WIDTH) = 0
    /\ pc.value = 4

\* ------------------------------------------------------------------------
\* C40: in a run from the constructed state over a loaded image the driver
\* keeps to the memory handshake in every cycle: request_fetch, request_load
\* and request_store are accepted (no other address and no other store value
\* is outstanding on that memory), and a fetch or load result is asked for
\* only with a read pending.  So the one error a memory can raise in a run
\* is the segmentation fault of a read at an address that holds nothing.
\* ------------------------------------------------------------------------
C40_DriverKeepsHandshake ==
    LET Accepted(req) == req.error = "none"
        ReadPending(ms) == ms.pending_address # None
        LoadOk(req) ==
            /\ Accepted(req)
            /\ operation_complete(req.ms).complete =>
                   ReadPending(operation_complete(req.ms).ms)
        MemoryStageOk(m, d) ==
            IF ~d.memory_instruction THEN TRUE
            ELSE IF d.memory_load
            THEN LoadOk(start_operation(m.dm, MEMORY_LATENCY_CYCLES,
                                        get_dmar_value(m.rf), None))
            ELSE IF d.memory_store
            THEN Accepted(start_operation(m.dm, MEMORY_LATENCY_CYCLES,
                                          get_dmar_value(m.rf),
                                          get_acc_value(m.rf)))
            ELSE TRUE
        ExecuteOk(m, d) == m.error # "none" \/ MemoryStageOk(m, d)
        DecodeOk(d) ==
            ~d.proceed \/ ExecuteOk(handle_execute_stage(d.m, d.decoded),
                                    d.decoded)
        FetchOk(req, f) ==
            /\ Accepted(req)
            /\ f.ok => /\ ReadPending(f.m.im)
                       /\ DecodeOk(handle_decode_stage(f.m))
    IN  CycleEnabled =>
            FetchOk(start_operation(im, INSTRUCTION_FETCH_LATENCY_CYCLES,
                                    pc.value, None),
                    handle_fetch_stage(Machine))

\* a run ended by a segmentation fault of the data memory: STORE wrote
\* address 0, and after ADDI 1 and PUT DOFF a LOAD asked for address 1
C40_Witness ==
    /\ run.mode = "raised"
    /\ run.error = "ValueError"
    /\ obs.outcome = "raised"
    /\ obs.inst = RegMemWord(LOAD, 0)
    /\ obs.executed = 3
    /\ DOMAIN dm.memory = {0}
    /\ dm.pending_address = 1
    /\ im.pending_address = None

====
